CONSTANTS
    f0 = f0  f1 = f1  f2 = f2  f3 = f3  f4 = f4  m1 = m1  m2 = m2  a = a  b = b  nel = nel
    Folders <- MCFolders
    Pieces <- MCPieces
    Messages <- MCMessages
    Calls <- MCCalls
    Divided = {nel}
    MaxFolderDepth = 2
    MaxFolders = 4
    MaxMessages = 2
CHECK_DEADLOCK FALSE
SPECIFICATION ExportSpec
INVARIANT NoTraceback
