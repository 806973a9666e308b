\* Any sequence of operations on each data structure.
CONSTANTS
  Parts <- AllParts
  DictKeys = {1, 2, 3, 4, 5, 6}  DictHash <- MCDictHash  DICT_HT_INITIAL_SIZE = 2
  dict_force_resize_ratio = 1  DictStarts <- MCDictStarts  DictOps = 3
  ZElements = {1, 2, 3}  ZScores = {1, 2}  ZSKIPLIST_MAXLEVEL = 3
  ZipValues <- MCZipValues  ZipMax = 5  ZIP_BIGLEN = 254  INT32_MAX = 10000000  ZipLenMax = 4
  QValues = {"s", "L"}  QSize <- MCQSize  QFills <- MCQFills  QDepths = {0, 1, 2}  QMaxLen = 5
  MIN_COMPRESS_BYTES = 48  SIZE_SAFETY_LIMIT = 8192
  optimization_level <- MCOptimization
  HllElements <- MCHllElements  HLL_REGISTERS = 5  HLL_SPARSE_VAL_MAX_VALUE = 2
  HLL_SPARSE_VAL_MAX_LEN = 3  HLL_SPARSE_ZERO_MAX_LEN = 2  HLL_SPARSE_XZERO_MAX_LEN = 6
  hll_sparse_max_bytes = 5  HllMaxCount = 3  HllMerges <- MCHllMerges
  IntBase = 4  IntWidths <- MCIntWidths  IntValues <- MCIntValues
  Subscribers = {1, 2}  Channels = {"a", "b"}  Patterns = {"p"}  Matches <- MCMatches
  PubsubStarts <- MCPubsubStarts  PubsubOps = 2  PubsubMessages = 1
  Streams <- MCStreams  PROTO_IOBUF_LEN = 9  PROTO_INLINE_MAX_SIZE = 9  PROTO_MBULK_BIG_ARG = 5
  PROTO_REPLY_CHUNK_BYTES = 4  MaxMultibulk = 5  MaxBulk = 8  client_max_querybuf_len = 40
  hard_limit_bytes = 9  soft_limit_bytes = 5  NetPauses = 1
SPECIFICATION Spec
INVARIANTS TraversalComplete RanksAgree ZiplistReads QuicklistReads HllAgrees IntsetHolds PubsubDelivers RepliesInOrder
CHECK_DEADLOCK FALSE
