-------------------------- MODULE MCInitialSnapshot --------------------------
(***************************************************************************)
(* Instances of InitialSnapshot for TLC.                                   *)
(***************************************************************************)
EXTENDS InitialSnapshot

CONSTANTS h, v

MCPartitionOf == [t \in {h, v} |-> IF t = h THEN 1 ELSE 2]

Config(mode, isFile, isNamed, hrows, vrows, hkey, vkey) ==
  [mode |-> mode, file |-> isFile, named |-> isNamed,
   autodrop |-> mode # "never" /\ ~(isNamed /\ isFile),
   rows |-> [t \in {h, v} |-> IF t = h THEN hrows ELSE vrows],
   key |-> [t \in {h, v} |-> IF t = h THEN hkey ELSE vkey]]

MCConfigs ==
  {Config("initial_only", TRUE, FALSE, 3, 1, "single", "single"),
   Config("initial_only", FALSE, TRUE, 1, 3, "single", "single"),
   Config("initial_only", TRUE, TRUE, 2, 1, "single", "single"),
   Config("initial_only", FALSE, TRUE, 1, 0, "single", "single"),
   Config("initial_only", TRUE, FALSE, 1, 1, "single", "composite"),
   Config("initial_only", TRUE, FALSE, 1, 1, "none", "single"),
   Config("initial_only", FALSE, TRUE, 3, 1, "dimension", "single"),
   Config("always", TRUE, TRUE, 1, 1, "single", "single"),
   Config("never", TRUE, TRUE, 1, 1, "single", "single")}

OneConfig == {Config("initial_only", TRUE, FALSE, 1, 1, "single", "single")}
===============================================================================
