CONSTANT Axes = {"X", "Y", "Z"}
SPECIFICATION HSpec
INVARIANT TypeOK
INVARIANT OutputFinite
INVARIANT OfThisFrame
