SPECIFICATION PyQtSpec
CONSTANTS
    Script = {"pyqt4", "pyqt5"}
    DebugDirMakers = {"pyqt4"}
    ReleaseGuards = {"pyqt4"}
    SipconfigFixers = {"pyqt5"}
INVARIANTS
    PyQtTypeOK
    SipFindsItsDir
    NoOldSip
    ReleaseToolsWin
    ConfigIsFixed
