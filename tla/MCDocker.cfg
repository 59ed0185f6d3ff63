\* Two containers, one name (or none) and one image: a create meets a name in
\* use, and one that was freed.
SPECIFICATION Spec
CONSTANTS
    Ids = {i1, i2}
    Names = {web}
    Images = {img}
    None = None
INVARIANTS
    OkMeansStarted
