---------------------------- MODULE MCLightSync ----------------------------
(***************************************************************************)
(* LightSync for TLC.  The levels are the ends of the scale and values that *)
(* the conversion to thousandths and back rounds differently; the          *)
(* brightness values are the ends, the first values with a non-zero level,  *)
(* and, for a colour light, byte boundaries.                               *)
(***************************************************************************)
EXTENDS LightSync

\* One change at a time: all the values of interest but level 1 of a dimmer, which
\* LightSync_lowest_level shows to break the agreement.
PacedLevels  == [OnOff |-> {}, LevelControl |-> {2, 32, 254}, ColorControl |-> {1, 128, 254}]
PacedBrights == [OnOff |-> {}, LevelControl |-> {4, 500, 1000},
                 ColorControl |-> {200, 512, 65535}]

\* Changes that race: the number of steps in flight matters, not the values.
RaceLevels  == [OnOff |-> {}, LevelControl |-> {32, 254}, ColorControl |-> {}]
RaceBrights == [OnOff |-> {}, LevelControl |-> {4, 500}, ColorControl |-> {}]

\* The lowest level, and one to come from.
LowLevels  == [OnOff |-> {}, LevelControl |-> {1, 128}, ColorControl |-> {}]
LowBrights == [type \in LightTypes |-> {}]
=============================================================================
