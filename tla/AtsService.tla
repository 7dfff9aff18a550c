----------------------------- MODULE AtsService -----------------------------
(***************************************************************************)
(* What the test daemon promises to whoever sends it commands, on the      *)
(* console or by UDP: a channel serves one command at a time; each command *)
(* it takes gets one answer, SUCCESS or FAIL, sent to where the command    *)
(* came from, and only a command the daemon knows can get SUCCESS.         *)
(***************************************************************************)
EXTENDS Naturals

CONSTANTS
  Channel,   \* the ways into the daemon
  Request,   \* commands: records with at least a field `from`
  Known(_),  \* the daemon has this command, with parameters it accepts
  None       \* no command, no answer

VARIABLES
  serving,   \* channel -> the command being executed
  answer     \* channel -> the last answer

vars == <<serving, answer>>

Init ==
  /\ serving = [c \in Channel |-> None]
  /\ answer = [c \in Channel |-> None]

Take(c, r) ==
  /\ serving[c] = None
  /\ serving' = [serving EXCEPT ![c] = r]
  /\ answer' = [answer EXCEPT ![c] = None]

Answer(c, status) ==
  /\ serving[c] # None
  /\ status = "SUCCESS" => Known(serving[c])
  /\ serving' = [serving EXCEPT ![c] = None]
  /\ answer' = [answer EXCEPT ![c] = [to |-> serving[c].from, status |-> status]]

Next ==
  \E c \in Channel :
    \/ \E r \in Request : Take(c, r)
    \/ \E status \in {"SUCCESS", "FAIL"} : Answer(c, status)

Spec == Init /\ [][Next]_vars
=============================================================================
