SPECIFICATION Spec
CONSTANTS
    Runner = {r1}
    Nobody = Nobody
    NoTask = NoTask
    base = base
    lib = lib
    old = old
    new = new
    app = app
    Task = {base, lib, old, new, app}
    Rank <- Backwards
    DependsOn <- Direct
    ReplacedBy <- Replacement
    Selected = {app}
    Elsewhere = {}
    MaxGen <- LibTwice
    MaxRev <- LibOnce
INVARIANTS
    ReplacementFirst
