CONSTANTS
  max_consecutive_reads = 2
  max_write_buf_size = 4
  max_http_size = 14
  receive_size = 14
  max_frame_size = 139
  MaskKeys = {0, 16909060}
  HttpSizes = {2, 14, 15}
  FrameKinds <- MCFrameKinds
  MaxFrames = 3
  MaxPayload = 200
  Backlog = 8
  ShortReads = {1, 129}
SPECIFICATION Spec
INVARIANTS TypeOK WsReadHasRoom OnlyBadPeersFail OutputSound
PROPERTIES WsIsChannel AllConsumed
