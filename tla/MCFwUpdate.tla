------------------------------- MODULE MCFwUpdate -------------------------------
(***************************************************************************)
(* Instances of FwUpdate: the image a device is delivered with, a good     *)
(* successor and one that boot2 rejects.                                   *)
(***************************************************************************)
EXTENDS FwUpdate

CONSTANTS old, new, flawed

MCImages == {old, new, flawed}
MCFlawed == {flawed}

\* Raw releases, good and flawed; a compressed one, sound and damaged.
MCFiles == {[kind |-> "raw", img |-> new, whole |-> TRUE],
            [kind |-> "raw", img |-> flawed, whole |-> TRUE],
            [kind |-> "xz", img |-> new, whole |-> TRUE],
            [kind |-> "xz", img |-> flawed, whole |-> FALSE]}

\* A request in the mfg partition comes with an image that boots.
SoundMfg == {[req |-> FALSE, boots |-> TRUE],
             [req |-> FALSE, boots |-> FALSE],
             [req |-> TRUE, boots |-> TRUE]}

\* A request may also stay in the mfg partition when its image is gone.
AnyMfg == [req : BOOLEAN, boots : BOOLEAN]

\* The second table may be missing on delivery; or both, and the image flawed.
SoundTables == {{0}, {0, 1}}
AnyTables == {{}, {0}}
SoundFirst == {old}
AnyFirst == {old, flawed}

\* A compressed release of a flawed image.
AnyFiles == MCFiles \cup {[kind |-> "xz", img |-> flawed, whole |-> TRUE]}
===============================================================================
