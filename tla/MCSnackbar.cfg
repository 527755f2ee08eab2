CONSTANTS
    Actions = {a1, a2, a3}
    NoAction = NoAction
SPECIFICATION BarSpec
PROPERTIES
    EveryActionSettles
    ImplementsWindow
