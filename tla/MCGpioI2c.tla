----------------------------- MODULE MCGpioI2c ------------------------------
(* One slave address, bytes whose bits differ at both ends and inside.     *)
EXTENDS GpioI2c

MCAddr == {160}
MCReg == {5, 128}
MCData == {1, 202}
MCSlaveData == {0, 178}
MCLens == 1 .. 3
AllFns == {"write_byte", "write_data", "read_byte", "read_data", "lcd_read_data"}
=============================================================================
