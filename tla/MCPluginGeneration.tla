------------------------- MODULE MCPluginGeneration -------------------------
(* Model-checking instance of PluginGeneration: the contribution of r      *)
(* moves to q, a plugin of another component.                              *)
EXTENDS PluginGeneration

Rev(p, n, pro, opt, keys) ==
    [plugin |-> p, rev |-> n, provides |-> pro, requires |-> {}, optional |-> opt,
     claims |-> keys]
R == Rev("r", 1, {"d"}, {}, {"m"})
RMoved == Rev("r", 2, {"d"}, {}, {})
QMoved == Rev("q", 2, {}, {"x"}, {"m"})

MovingProfiles == {{R}, {RMoved, QMoved}}
MovingRevisions == UNION MovingProfiles
=============================================================================
