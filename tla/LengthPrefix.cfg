CONSTANTS
  max_consecutive_reads = 2
  max_write_buf_size = 4
  HeaderSize = 2
  default_receive_size = 3
  max_message_length = 4
  Sizes = {0, 1, 3}
  MaxFrames = 3
  WireCapacity = 3
SPECIFICATION Spec
INVARIANTS TypeOK BuffersMove
PROPERTIES IsChannel AllDelivered
