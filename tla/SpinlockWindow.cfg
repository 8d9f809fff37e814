CONSTANT MaxDepth = 1
SPECIFICATION Spec
PROPERTY HandlersLog
