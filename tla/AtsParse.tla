------------------------------ MODULE AtsParse ------------------------------
(***************************************************************************)
(* How AtCmdExec (ats/src/ats.c) takes a received text apart: the line is  *)
(* cut at the first end-of-line, strtok_r splits the name from the         *)
(* parameters at "=", the name is looked up and the parameters are split   *)
(* at "_".  One step is one call of strtok_r; every text up to a bound is  *)
(* parsed, and the outcome compared with a definition of what the line     *)
(* means.                                                                  *)
(*                                                                         *)
(* Characters matter only by their role: the separators "=" and "_", the   *)
(* end of line "eol" (\r or \n), the end of a C string "nul", and letters. *)
(***************************************************************************)
EXTENDS Naturals, Sequences, SequencesExt, Ranks

CONSTANTS
  Char,           \* the characters a text is made of
  MaxText,        \* bound: longest text
  Names,          \* names of the registered commands, as sequences of Char
  MAX_PARAM_CNT   \* size of argv: 32 in the source

PREFIX_DILM == "="
PARAM_DILM == "_"

ASSUME NamesAssumption ==
  Names \subseteq Seq(Char \ {PREFIX_DILM, "eol", "nul"}) \ {<<>>}

ASSUME ParamAssumption == MAX_PARAM_CNT \in Nat \ {0}

ASSUME MaxTextAssumption == MaxText \in Nat

VARIABLES
  text,     \* the received text, as many characters as the caller's len
  pc,       \* where AtCmdExec is
  buf,      \* the C string in buf
  left,     \* the string strtok_r goes on with
  argv,     \* the parameters found so far
  ret       \* what AtCmdExec returns; "called": what the callback returns

vars == <<text, pc, buf, left, argv, ret>>

\* The first position from k on at which s has a character of C, or Len(s) + 1.
FirstOf(s, k, C) ==
  CHOOSE i \in k .. Len(s) + 1 :
    /\ i = Len(s) + 1 \/ s[i] \in C
    /\ \A j \in k .. i - 1 : s[j] \notin C

\* Mutant: an empty piece in front ends the tokens.
StrTokNoSkip(s, d) ==
  LET e == FirstOf(s, 1, {d})
  IN  [tok |-> SubSeq(s, 1, e - 1), left |-> SubSeq(s, e + 1, Len(s)), at |-> e - 1]

\* strtok_r(s, d, &left): leading separators are skipped; NULL (here tok = <<>>)
\* when nothing else is there.  at is where the token ends in s.
StrTok(s, d) ==
  LET b == FirstOf(s, 1, Char \ {d})
      e == FirstOf(s, b, {d})
  IN  [tok |-> SubSeq(s, b, e - 1), left |-> SubSeq(s, e + 1, Len(s)), at |-> e - 1]

Init ==
  /\ text \in BoundedSeq(Char, MaxText)
  /\ pc = "enter"
  /\ buf = <<>> /\ left = <<>> /\ argv = <<>>
  /\ ret = "none"

Return(r) ==
  /\ pc' = "done"
  /\ ret' = r

\* An empty text is refused.  strncpy_s copies up to the first NUL, strcspn cuts
\* at the first \r or \n.
Enter ==
  /\ pc = "enter"
  /\ \/ /\ text = <<>>
        /\ Return("RET_INVALID_PARAM")
        /\ UNCHANGED buf
     \/ /\ text # <<>>
        /\ buf' = SubSeq(text, 1, FirstOf(text, 1, {"eol", "nul"}) - 1)
        /\ pc' = "prefix"
        /\ UNCHANGED ret
  /\ UNCHANGED <<text, left, argv>>

\* strtok_r writes a NUL behind the token, which ends the string in buf there.
TakePrefix ==
  /\ pc = "prefix"
  /\ LET t == StrTok(buf, PREFIX_DILM) IN
       \/ /\ t.tok = <<>>
          /\ Return("RET_ERROR")
          /\ UNCHANGED <<buf, left>>
       \/ /\ t.tok # <<>>
          /\ buf' = SubSeq(buf, 1, t.at)
          /\ left' = t.left
          /\ pc' = "lookup"
          /\ UNCHANGED ret
  /\ UNCHANGED <<text, argv>>

\* It is buf, not the token, that is compared with the names.
LookUp ==
  /\ pc = "lookup"
  /\ \/ buf \in Names /\ pc' = "args" /\ UNCHANGED ret
     \/ buf \notin Names /\ Return("RET_NOT_EXISTS")
  /\ UNCHANGED <<text, buf, left, argv>>

\* Mutant: one parameter more than argv has room for.
TakeParamOneMore ==
  /\ pc = "args"
  /\ LET t == StrTok(left, PARAM_DILM) IN
       IF Len(argv) <= MAX_PARAM_CNT /\ t.tok # <<>>
       THEN argv' = Append(argv, t.tok) /\ left' = t.left /\ UNCHANGED <<pc, ret>>
       ELSE pc' = "call" /\ UNCHANGED <<left, argv, ret>>
  /\ UNCHANGED <<text, buf>>

\* One round of the loop.  When argv is full it looks for one more parameter.
TakeParam ==
  /\ pc = "args"
  /\ LET t == StrTok(left, PARAM_DILM)
         u == StrTok(t.left, PARAM_DILM)
     IN  \/ /\ Len(argv) < MAX_PARAM_CNT
            /\ t.tok = <<>>
            /\ pc' = "call"
            /\ UNCHANGED <<left, argv, ret>>
         \/ /\ Len(argv) < MAX_PARAM_CNT
            /\ t.tok # <<>>
            /\ argv' = Append(argv, t.tok)
            /\ IF Len(argv') >= MAX_PARAM_CNT /\ u.tok # <<>>
               THEN Return("RET_ERROR") /\ UNCHANGED left
               ELSE left' = t.left /\ UNCHANGED <<pc, ret>>
         \/ /\ Len(argv) >= MAX_PARAM_CNT
            /\ pc' = "call"
            /\ UNCHANGED <<left, argv, ret>>
  /\ UNCHANGED <<text, buf>>

CallBack ==
  /\ pc = "call"
  /\ Return("called")
  /\ UNCHANGED <<text, buf, left, argv>>

Done == pc = "done" /\ UNCHANGED vars

Next == Enter \/ TakePrefix \/ LookUp \/ TakeParam \/ CallBack \/ Done

Spec == Init /\ [][Next]_vars

-----------------------------------------------------------------------------
(* What a text means *)

\* The positions of s at which a parameter starts: the parameters are the
\* longest pieces without a "_".
Starts(s) == {k \in 1 .. Len(s) : s[k] # PARAM_DILM /\ (k = 1 \/ s[k - 1] = PARAM_DILM)}

\* The parameter that starts at position k.
Piece(s, k) == SubSeq(s, k, FirstOf(s, k, {PARAM_DILM}) - 1)

Params(s) == [n \in 1 .. Cardinality(Starts(s)) |-> Piece(s, Nth(Starts(s), n))]

Line == SubSeq(text, 1, FirstOf(text, 1, {"eol", "nul"}) - 1)
Name == SubSeq(Line, 1, FirstOf(Line, 1, {PREFIX_DILM}) - 1)
Rest == SubSeq(Line, Len(Name) + 2, Len(Line))

Meaning ==
  IF text = <<>> THEN "RET_INVALID_PARAM"
  ELSE IF \A k \in DOMAIN Line : Line[k] = PREFIX_DILM THEN "RET_ERROR"
  ELSE IF Name \notin Names THEN "RET_NOT_EXISTS"
  ELSE IF Len(Params(Rest)) > MAX_PARAM_CNT THEN "RET_ERROR"
  ELSE "called"

-----------------------------------------------------------------------------
(* Properties *)

\* Type invariant: no parameter is empty or contains a separator.
TypeOK ==
  /\ pc \in {"enter", "prefix", "lookup", "args", "call", "done"}
  /\ buf \in Seq(Char)
  /\ left \in Seq(Char)
  /\ argv \in Seq(Seq(Char \ {PARAM_DILM, "eol", "nul"}) \ {<<>>})
  /\ ret \in {"none", "RET_INVALID_PARAM", "RET_ERROR", "RET_NOT_EXISTS", "called"}

\* The callback of a command runs exactly for the lines that name it with at
\* most MAX_PARAM_CNT parameters, and gets the parameters of the line: none
\* lost, split, joined or invented by the shared state of strtok_r, with empty
\* ones dropped; every other line gets the error of its kind.
ParsesTheLine ==
  pc = "done" =>
    /\ ret = Meaning
    /\ ret = "called" => buf = Name /\ argv = Params(Rest)

\* argv[argc] is only written inside the array.
ArgvFits == Len(argv) <= MAX_PARAM_CNT
=============================================================================
