SPECIFICATION SpecHangingCommand
CONSTANT MaxEvents = 1
PROPERTY StopExits
