SPECIFICATION Spec
CONSTANTS
    Runner = {r1}
    Nobody = Nobody
    NoTask = NoTask
    base = base
    lib = lib
    old = old
    new = new
    app = app
    Task = {base, lib, old, new, app}
    Rank <- Backwards
    DependsOn <- Shared
    ReplacedBy <- Replacement
    Selected = {app}
    Elsewhere = {new}
    MaxGen <- LibTwice
    MaxRev <- LibOnce
INVARIANTS
    PrunedWasCovered
