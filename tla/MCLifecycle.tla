---------------------------- MODULE MCLifecycle ----------------------------
EXTENDS Lifecycle, TLC

CONSTANTS DatMng, Agent1, Agent2, Master, Processing

\* Two components on the master, one on a processing host
MCNodes == {EvtMng, DatMng, Agent1}
MCHostOf == [n \in MCNodes |-> IF n = Agent1 THEN Processing ELSE Master]

\* The Event Manager alone on the master, two agents on a processing host
SmallNodes == {EvtMng, Agent1, Agent2}
SmallHostOf == [n \in SmallNodes |->
                  IF n = EvtMng THEN Master ELSE Processing]
=============================================================================
