SPECIFICATION SessionSpec
CONSTANTS
  None = None
  Values = {v1, v2}
  Limits = {100, 200}
  NetFiles = {net, missing}
  Readable = {net}
  BookFiles = {book, gone}
  ReadableBooks = {book}
  Random = Random
INVARIANTS
  SettingsInForce
  GamesIsolated
