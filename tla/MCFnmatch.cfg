SPECIFICATION Spec
CONSTANT Inputs <- Cases
INVARIANTS ResultIsMeaning LeftIsAsGood ScannersAgree
PROPERTY Returns
CHECK_DEADLOCK FALSE
