\* The four functions gpio_i2c.h declares and the LCD variant.
CONSTANTS
  Addr <- MCAddr
  Reg <- MCReg
  Data <- MCData
  SlaveData <- MCSlaveData
  Lens <- MCLens
  MaxLen = 2
  Fns <- AllFns
SPECIFICATION I2cSpec
INVARIANTS
  BusShowsTransfer
  ReadStoresSlaveBytes
  NoContention
  BusIdleOnReturn
