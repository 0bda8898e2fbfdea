SPECIFICATION Spec
CONSTANTS
    Runner = {r1, r2}
    Nobody = Nobody
    NoTask = NoTask
    base = base
    lib = lib
    old = old
    new = new
    app = app
    Task = {base, lib, old, new, app}
    Rank <- Backwards
    DependsOn <- Layers
    ReplacedBy <- Replacement
    Selected = {app}
    Elsewhere = {new, base}
    MaxGen <- LibTwice
    MaxRev <- LibOnce
PROPERTIES
    GenerationsMonotonic
