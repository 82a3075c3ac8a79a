\* One remote, three buttons, every parameter written at any moment.
CONSTANTS
    bWheel = bWheel
    bUp = bUp
    bOther = bOther
    enter = enter
    up = up
    down = down
    left = left
    NoButton = NoButton
    NoKey = NoKey
    Buttons = {bWheel, bUp, bOther}
    Keys = {enter, up, down, left}
    KeyOf <- MCKeyOf
    WheelButton = bWheel
    BtnLeft = left
    KeyUp = up
    KeyDown = down
SPECIFICATION Spec
INVARIANTS TypeOK OnlyHeldKeyDown HeldKeyIsDown ModeNeedsCalibration
