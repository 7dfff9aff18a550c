--------------------------- MODULE CameraCommands ---------------------------
(***************************************************************************)
(* The command table of UDP/cmd_handle.c and what its handlers do.         *)
(*                                                                         *)
(* A handler is described by the word it wants in front of the parameters, *)
(* if it looks at it, by how many parameters it needs, and by its program: *)
(* the calls it makes and the lines it sends, in order.  The functions it  *)
(* calls are external, and so are the handlers of old_cmd.h.               *)
(***************************************************************************)
EXTENDS Integers, Sequences, TLC

Row(word, func) == [word |-> word, func |-> func]

\* The one word with a blank in it.
WIFICtrl == "AT+WIFICtrl "

\* The rows kept for old products, then the standard ones; in this order.
LegacyRows ==
  << Row("AT+EXITATS", "old"), Row("AT+FMDate", "old"), Row("AT+PDRead", "old"),
     Row("AT+PDWrite_", "old"), Row("AT+ReadWifiMac", "WifiMacReadHandle"),
     Row("AT+WIFIVER", "old"), Row("AT+WIFISCAN_", "old"), Row("AT+WireIp", "old"),
     Row("AT+SPK", "old"), Row("AT+MIC", "old"), Row("AT+IRCUT_OO", "old"),
     Row("AT+PTZTEST", "old"), Row("AT+QRCODESCAN", "old"), Row("AT+SensorLv", "old"),
     Row("AT+SENSORID", "GetSensorIdHandle"), Row("AT+LightSensorVal", "old"),
     Row("AT+WriteWifiMac_", "WifiMacWriteHandle"), Row("AT+Call", "old"),
     Row("AT+SaveAudio", "old"), Row(WIFICtrl, "old"), Row("AT+PTZDIR_U", "old"),
     Row("AT+PTZDIR_D", "old"), Row("AT+PTZDIR_L", "old"), Row("AT+PTZDIR_R", "old"),
     Row("AT+LED_ON", "old"), Row("AT+LED_OFF", "old"), Row("AT+LEDR_ON", "old"),
     Row("AT+LEDR_OFF", "old"), Row("AT+LEDG_ON", "old"), Row("AT+LEDG_OFF", "old"),
     Row("AT+LEDW_ON", "old"), Row("AT+LEDW_OFF", "old"), Row("AT+Mandate_", "old"),
     Row("AT+SensorTest", "old"), Row("AT+PIRTest", "old"), Row("AT+GetBatVol", "old"),
     Row("AT+PCBWrite_", "PcbSnWriteHandle"), Row("AT+PCBRead", "PcbSnReadHandle"),
     Row("AT+OLDFLAG", "OldFlagReadHandle") >>

StandardRows ==
  << Row("AT+FWVER", "GetFwVerHandle"), Row("AT+HWVER", "GetHwVerHandle"),
     Row("AT+ATSVER", "GetAtsVerHandle"), Row("AT+PCBSNWrite", "PcbSnWriteHandle"),
     Row("AT+PCBSNRead", "PcbSnReadHandle"), Row("AT+SNWrite", "SnWriteHandle"),
     Row("AT+SNRead", "SnReadHandle"), Row("AT+AudioFlagWrite", "AudioFlagWriteHandle"),
     Row("AT+AudioFlagRead", "AudioFlagReadHandle"), Row("AT+DIDWrite", "DidWriteHandle"),
     Row("AT+DIDRead", "DidReadHandle"), Row("AT+LED", "LedCtrlHandle"),
     Row("AT+IRLED", "IrLedCtrlHandle"), Row("AT+IRCUT", "IRCutCtrlHandle"),
     Row("AT+OldFlagRead", "OldFlagReadHandle"), Row("AT+Volume", "VolumeHandle"),
     Row("AT+RecordStart", "RecordStartHandle"), Row("AT+RecordStop", "RecordStopHandle"),
     Row("AT+PlayStart", "PlayStartHandle"), Row("AT+PlayStop", "PlayStopHandle"),
     Row("AT+GetRecordFile", "GetRecordFileHandle"),
     Row("AT+DelRecordFile", "DelRecordFileHandle"), Row("AT+KeyTest", "KeyTestHandle"),
     Row("AT+WifiMACWrite", "WifiMacWriteHandle"), Row("AT+WifiMACRead", "WifiMacReadHandle"),
     Row("AT+WifiCCWrite", "WifiCCWriteHandle"), Row("AT+WifiCCRead", "WifiCCReadHandle"),
     Row("AT+WifiConnect", "WifiConnectHandle"), Row("AT+WifiScan", "WifiScanHandle"),
     Row("AT+WifiRxStart", "WifiRxStartHandle"), Row("AT+WifiRxStop", "WifiRxStopHandle"),
     Row("AT+WifiTxStart", "WifiTxStartHandle"), Row("AT+WifiTxStop", "WifiTxStopHandle"),
     Row("AT+WifiAteMode", "WifiAteModeHandle"), Row("AT+PtzDir", "PtzDirHandle"),
     Row("AT+PtzPosRead", "PtzPosReadHandle"), Row("AT+PtzPosWrite", "PtzPosWriteHandle"),
     Row("AT+PushAudioFile", "PushAudioFileHandle"), Row("AT+SensorID", "GetSensorIdHandle"),
     Row("AT+TFTest", "TestTfcardHandle"), Row("AT+FreqDeviWrite", "FreqDeviWriteHandle"),
     Row("AT+FreqDeviRead", "FreqDeviReadHandle"), Row("AT+Reset", "ResetHandle"),
     Row("AT+CpuIdRead", "CpuIdReadHandle"), Row("AT+AILicenseWrite", "AILicenseWriteHandle"),
     Row("AT+AILicenseRead", "AILicenseReadHandle"), Row("AT+WifiIPRead", "WifiIPReadHandle"),
     Row("AT+AtsEnable", "AtsEnableHandle"), Row("AT+AtsDisable", "AtsDisableHandle"),
     Row("AT+AutoNightVision", "AutoNightVisionHandle"),
     Row("AT+PlayRecord", "AutoPlayRecordHandle"), Row("AT+UartEnable", "UartEnableHandle") >>

g_cmd_handles == LegacyRows \o StandardRows

-----------------------------------------------------------------------------
(* The steps of a program *)

Step(do, what) == [do |-> do, what |-> what]

Call(f)  == Step("call", f)     \* a failure ends the handler
Try(f)   == Step("try", f)      \* the result is not looked at
Write(k) == Step("write", k)    \* the first parameter is stored under k; may fail
Say(l)   == Step("say", l)      \* AT_RSP
Explain(f) == Step("explain", f)   \* a call whose failure is explained in a line

Handler(head, argc, prog) == [head |-> head, argc |-> argc, prog |-> prog]
AnyHead == ""

-----------------------------------------------------------------------------
(* The handlers, in the order of the file *)

VersionHandlers ==
  [ GetFwVerHandle |-> Handler(AnyHead, 0, <<Call("GetFmVer"), Say("FWVER")>>),
    GetHwVerHandle |-> Handler(AnyHead, 0, <<Call("GetHwVer"), Say("HWVER")>>),
    GetAtsVerHandle |-> Handler(AnyHead, 0, <<Say("ATSVER")>>) ]

SnHandlers ==
  [ PcbSnReadHandle |-> Handler(AnyHead, 0, <<Call("ReadPcbSN"), Say("PCBSN")>>),
    PcbSnWriteHandle |-> Handler("AT+PCBSNWrite", 1, <<Write("pcb_sn")>>),
    SnReadHandle |-> Handler(AnyHead, 0, <<Call("ReadInfoFromDid"), Say("SN")>>),
    SnWriteHandle |-> Handler("AT+SNWrite", 1, <<Write("did_sn")>>) ]

WifiHandlers ==
  [ WifiMacReadHandle |->
       Handler(AnyHead, 0, <<Call("PLAT_NetGetMacString3"), Say("WifiMAC")>>),
    WifiCCWriteHandle |-> Handler("AT+WifiCCWrite", 1, <<Write("wifi_cc")>>),
    WifiCCReadHandle |-> Handler(AnyHead, 0, <<Call("ReadWifiCC"), Say("WifiCC")>>),
    WifiScanHandle |-> Handler("AT+WifiScan", 1, <<Call("GetEssidRssiApi"), Say("RSSI")>>) ]

WifiTestHandlers ==
  [ WifiRxStartHandle |-> Handler("AT+WifiRxStart", 2, <<Call("start_rx")>>),
    WifiRxStopHandle |->
       Handler(AnyHead, 0,
         <<Call("stop_rx"), Call("popen_dmesg"), Call("strstr"), Say("rxSuccess")>>),
    WifiTxStartHandle |-> Handler("AT+WifiTxStart", 2, <<Call("start_tx")>>),
    WifiTxStopHandle |-> Handler(AnyHead, 0, <<Call("stop_tx")>>),
    WifiAteModeHandle |-> Handler("AT+WifiAteMode", 1, <<Call("ifconfig")>>) ]

PtzHandlers ==
  [ PtzDirHandle |-> Handler("AT+PtzDir", 1, <<Call("ATS_PtzMove")>>),
    PtzPosReadHandle |-> Handler(AnyHead, 0, <<Call("ATS_PtzGetPos"), Say("x_y")>>),
    PtzPosWriteHandle |-> Handler("AT+PtzPosWrite", 2, <<Call("ATS_PtzSetPos")>>) ]

FlagHandlers ==
  [ OldFlagReadHandle |-> Handler(AnyHead, 0, <<Try("CheckOldFlag"), Say("OldFlag")>>),
    AudioFlagWriteHandle |-> Handler(AnyHead, 0, <<Call("SaveAudioFlag")>>),
    AudioFlagReadHandle |-> Handler(AnyHead, 0, <<Try("CheckAudioFlag"), Say("AudioFlag")>>),
    VolumeHandle |-> Handler("AT+Volume", 1, <<Call("SetAgingAudioVolume")>>) ]

LightHandlers ==
  [ IRCutCtrlHandle |-> Handler("AT+IRCUT", 2, <<Call("AtsSetDayNightMode")>>),
    IrLedCtrlHandle |-> Handler("AT+IRLED", 2, <<Call("HwCtrl_SetIRLED")>>),
    LedCtrlHandle |-> Handler("AT+LED", 3, <<Call("HwCtrl_SetLED")>>) ]

IdentityHandlers ==
  [ DidReadHandle |-> Handler(AnyHead, 0, <<Call("ReadDidApi"), Say("DID")>>),
    DidWriteHandle |-> Handler("AT+DIDWrite", 1, <<Write("did")>>),
    WifiMacWriteHandle |->
       Handler("AT+WifiMACWrite", 1, <<Write("chip_mac"), Write("did_mac")>>),
    KeyTestHandle |-> Handler(AnyHead, 0, <<Call("ReadResetButton"), Say("Key1")>>) ]

AudioHandlers ==
  [ RecordStartHandle |-> Handler("AT+RecordStart", 0, <<Call("RecordAudio")>>),
    RecordStopHandle |-> Handler(AnyHead, 0, <<Call("RecordAudio")>>),
    PlayStartHandle |-> Handler("AT+PlayStart", 0, <<Explain("PlayAudioFileStart")>>),
    PlayStopHandle |-> Handler(AnyHead, 0, <<Call("PlayAudioFileStop")>>),
    GetRecordFileHandle |-> Handler("AT+GetRecordFile", 2, <<Call("tftp")>>),
    DelRecordFileHandle |->
       Handler(AnyHead, 0, <<Call("rm_pcm"), Call("rm_left"), Call("rm_right")>>) ]

NetHandlers ==
  [ WifiConnectHandle |->
       Handler("AT+WifiConnect", 2, <<Call("wificonnect.sh"), Call("PLAT_WifiGetInfo")>>),
    WifiIPReadHandle |-> Handler(AnyHead, 0, <<Call("PLAT_NetGetIpv4"), Say("IP")>>),
    AtsEnableHandle |-> Handler(AnyHead, 0, <<Call("rm_ats_disable"), Say("ATS_enabled")>>),
    AtsDisableHandle |->
       Handler(AnyHead, 0, <<Call("touch_ats_disable"), Say("ATS_disabled")>>),
    AutoNightVisionHandle |->
       Handler("AT+AutoNightVision", 1, <<Call("AtsNightMonitorSetMode")>>),
    AutoPlayRecordHandle |-> Handler("AT+PlayRecord", 1, <<Explain("PlayRecordStart")>>),
    PushAudioFileHandle |-> Handler("AT+PushAudioFile", 1, <<Call("tftp")>>) ]

\* The test of the memory card works on a file: see CameraAts.
HardwareHandlers ==
  [ GetSensorIdHandle |->
       Handler(AnyHead, 0, <<Call("AVC_VidGetSensorID"), Call("strtok"), Say("SensorId")>>),
    TestTfcardHandle |->
       Handler(AnyHead, 0, <<Step("card", "fopen"), Step("card", "fwrite"), Step("card", "fread")>>),
    FreqDeviWriteHandle |-> Handler("AT+FreqDeviWrite", 2, <<Call("setEfuse_dcxo")>>),
    FreqDeviReadHandle |->
       Handler(AnyHead, 0,
         <<Call("getEfuse"), Call("popen_dmesg"), Call("strstr"), Say("FreqDevi")>>) ]

\* Nothing that ResetHandle does can fail it.
MaintenanceHandlers ==
  [ ResetHandle |->
       Handler("AT+Reset", 0,
         <<Try("rm_config"), Try("rm_record"), Try("sync"), Step("reboot", "reboot")>>),
    CpuIdReadHandle |->
       Handler(AnyHead, 0, <<Call("popen_cpuinfo"), Call("strstr"), Say("CpuId")>>),
    AILicenseReadHandle |-> Handler(AnyHead, 0, <<Call("ReadInfoFromDid"), Say("AILicense")>>),
    AILicenseWriteHandle |-> Handler("AT+AILicenseWrite", 1, <<Write("did_license")>>),
    UartEnableHandle |-> Handler("AT+UartEnable", 1, <<Call("io")>>) ]

\* A handler of old_cmd.h makes some call.
OldHandlers == [old |-> Handler(AnyHead, 0, <<Call("old_cmd")>>)]

HandlerGroups ==
  { VersionHandlers, SnHandlers, WifiHandlers, WifiTestHandlers, PtzHandlers, FlagHandlers,
    LightHandlers, IdentityHandlers, AudioHandlers, NetHandlers, HardwareHandlers,
    MaintenanceHandlers, OldHandlers }

Handlers ==
  [f \in UNION {DOMAIN g : g \in HandlerGroups} |->
     (CHOOSE g \in HandlerGroups : f \in DOMAIN g)[f]]

-----------------------------------------------------------------------------
(* Which parameter values a handler takes *)

\* atoi and strtol: text without digits is 0.
Number == "0" :> 0 @@ "1" :> 1 @@ "2" :> 2 @@ "128" :> 128 @@ "129" :> 129
Atoi(s) == IF s \in DOMAIN Number THEN Number[s] ELSE 0

AcceptsValues(func, a) ==
  /\ func = "WifiTxStartHandle" => a[2] \in {"11B", "11G", "11N"}
  /\ func = "WifiAteModeHandle" => Atoi(a[1]) \in {0, 1}
  /\ func = "PtzDirHandle" => a[1] \in {"L", "R", "U", "D"}
  /\ func = "IRCutCtrlHandle" => a[1] \in {"ON", "OFF"} /\ Atoi(a[2]) \in {0, 1}
  /\ func = "IrLedCtrlHandle" => a[2] \in {"ON", "OFF"}
  /\ func = "LedCtrlHandle" =>
       a[1] \in {"RED", "GREEN", "BLUE"} /\ a[3] \in {"ON", "OFF", "BLINK"}
  /\ func = "GetRecordFileHandle" => a[1] \in {"L", "R"}
  /\ func = "AutoPlayRecordHandle" => a[1] \in {"L", "R"}
  /\ func = "FreqDeviWriteHandle" => Atoi(a[1]) \in 0 .. 128 /\ Atoi(a[2]) \in {0, 1}
  /\ func = "UartEnableHandle" => a[1] \in {"0", "1"}

\* The checks a handler makes before its first step.  What follows the
\* parameters it needs is not looked at.
Accepts(func, head, a) ==
  LET h == Handlers[func] IN
    /\ h.head \in {AnyHead, head}
    /\ h.argc <= Len(a)
    /\ AcceptsValues(func, a)
=============================================================================
