CONSTANTS
  DHT11_QUEUE_LENGTH = 3
  Values = {0, 1, 2}
  MaxBehind = 2
SPECIFICATION Dht11Spec
INVARIANT IndexInv
PROPERTY LastReadings
