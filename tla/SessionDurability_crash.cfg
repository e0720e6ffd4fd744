SPECIFICATION HSpec
CONSTANT MaxDrops = 2
INVARIANT CrashKeepsProgress
