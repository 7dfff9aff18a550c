---------------------------- MODULE AtsCommands -----------------------------
(***************************************************************************)
(* The command tables of ats/module/*.c and what their handlers do: how    *)
(* many parameters they take, which calls into the board support code they *)
(* make, in order, and whether they send output before they return.        *)
(*                                                                         *)
(* The called functions (GetGpio, PhyTest, system, ...) are external: such *)
(* a call takes a while and succeeds or fails.                             *)
(***************************************************************************)
EXTENDS Integers, Sequences

Cmd(str, cb) == [str |-> str, cb |-> cb]

HwTestCmds ==
  << Cmd("TL_GPIO_READ", "GpioReadHandle"),
     Cmd("TL_GPIO_WRITE", "GpioWriteHandle"),
     Cmd("TL_GPIO_MODE", "GpioModeHandle"),
     Cmd("TL_WIFI_CONN", "WifiConnHandle"),
     Cmd("TL_I2C_TEST", "I2cTestHandle"),
     Cmd("TL_ETH_PHY_TEST", "EthPhyTestHandle"),
     Cmd("TL_USB_TEST", "UsbTestHandle"),
     Cmd("TL_LCD_TEST", "LcdTestHandle"),
     Cmd("TL_HALL_TEST", "HallTestHandle"),
     Cmd("TL_LIGHT_SENSOR_TEST", "LightSensorTestHandle") >>

MainBoardCmds ==
  << Cmd("TL_ATS_IN", "AtsInHandle"),
     Cmd("TL_DUT_SW_VER_IMX8MP", "SwVerHandle") >>

RfCmds ==
  << Cmd("TL_DUT_RFTEST_ON", "RfTestOnHandle"),
     Cmd("TL_DUT_RFTEST_OFF", "RfTestOffHandle"),
     Cmd("TL_WIFI_TX_ON", "WifiTxStartHandle"),
     Cmd("TL_WIFI_TX_OFF", "WifiTxStopHandle") >>

\* The parameter counts a handler accepts.
Accepts(cb, argc) ==
  CASE cb \in {"I2cTestHandle", "EthPhyTestHandle", "UsbTestHandle"} -> argc = 1
    [] cb \in {"GpioReadHandle", "WifiConnHandle", "LcdTestHandle"} -> argc = 2
    [] cb \in {"GpioWriteHandle", "GpioModeHandle"} -> argc = 3
    [] OTHER -> TRUE

\* The handlers that look at the value of a parameter, and may refuse it: the
\* mode of the Ethernet test and the first parameter of the LCD test.
ChecksValue(cb) == cb \in {"EthPhyTestHandle", "LcdTestHandle"}

\* The calls of a handler, each made only if the one before has succeeded.
Calls(cb) ==
  CASE cb = "GpioReadHandle"   -> <<"GetGpio">>
    [] cb = "GpioWriteHandle"  -> <<"SetGpio">>
    [] cb = "GpioModeHandle"   -> <<"SetGpioMode">>
    [] cb = "WifiConnHandle"   -> <<"sed ssid", "sed psk">>
    [] cb = "I2cTestHandle"    -> <<"I2cRead">>
    [] cb = "EthPhyTestHandle" -> <<"PhyTest 0x1F", "PhyTest 0x09">>
    [] cb = "UsbTestHandle"    -> <<"toUsbHost.sh", "memtool">>
    [] cb = "LcdTestHandle"    -> <<"LcdShowBmp or LcdFillColor">>
    [] OTHER -> <<>>

\* GetGpio returns the level of the pin: it has no failure the caller sees.
MayFail(call) == call # "GetGpio"

\* The handlers that send a line of output.
Prints(cb) == cb \in {"GpioReadHandle", "AtsInHandle", "SwVerHandle"}
=============================================================================
