SPECIFICATION PyQtSpec
CONSTANTS
    Script = {"pyqt5"}
    DebugDirMakers = {}
    ReleaseGuards = {}
    SipconfigFixers = {"pyqt5"}
INVARIANTS
    DebugHasItsSip
