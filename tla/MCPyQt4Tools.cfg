SPECIFICATION PyQtSpec
CONSTANTS
    Script = {"pyqt4"}
    DebugDirMakers = {"pyqt4"}
    ReleaseGuards = {"pyqt4"}
    SipconfigFixers = {}
INVARIANTS
    ReleaseToolsOnTop
