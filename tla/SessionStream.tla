---------------------------- MODULE SessionStream ----------------------------
(***************************************************************************)
(* The two Takion connections of a session, one after the other, as         *)
(* session_thread_func makes them (session.c:700-780): Senkusha measures    *)
(* the network, and the stream connection runs with what it measured, or    *)
(* with fixed values when the measurement failed.  A stop that comes during *)
(* Senkusha waits for state_mutex, which the session thread holds.          *)
(***************************************************************************)
EXTENDS StreamConnection

CONSTANTS MinMtu, MaxMtu, Retries, Pings, Paths, Second, MtuTimeouts

\* The sizes between which chiaki_senkusha_run searches are 576 and 1454.
ASSUME MtuAssumption ==
  /\ MinMtu \in Nat \ {0} /\ MaxMtu \in Nat /\ MinMtu < MaxMtu
  /\ Retries \in Nat \ {0} /\ Pings \in Nat \ {0} /\ Paths \subseteq Nat

VARIABLES pc, want, answered, air, n, ping, pongs, lo, hi, cur, tries, mtuIn, mtuOut, err,
          pathIn, pathOut, lossy, refused,
          values   \* of session->mtu_in, mtu_out and rtt_us: "none", "measured", "fallback"

Measure == INSTANCE Senkusha WITH finished <- answered

measuring == <<pc, want, answered, air, n, ping, pongs, lo, hi, cur, tries, mtuIn, mtuOut,
               err, pathIn, pathOut, lossy, refused>>
all == <<vars, measuring, values>>

SInit == Init /\ Measure!Init /\ values = "none"

\* chiaki_senkusha_run returned: its results count only if it succeeded.
UseValues ==
  /\ pc = "done" /\ values = "none"
  /\ values' = IF err = "success" THEN "measured" ELSE "fallback"
  /\ pc' = "used" /\ want' = <<"none", 0>> /\ answered' = FALSE /\ air' = {}
  /\ n' = 0 /\ ping' = 0 /\ pongs' = 0 /\ lo' = 0 /\ hi' = 0 /\ cur' = 0 /\ tries' = 0
  /\ mtuIn' = 0 /\ mtuOut' = 0
  /\ err' = "none" /\ pathIn' = 0 /\ pathOut' = 0 /\ lossy' = FALSE /\ refused' = FALSE
  /\ UNCHANGED vars

SNext ==
  \/ Measure!Next /\ UNCHANGED <<vars, values>>
  \/ UseValues
  \/ values # "none" /\ Next /\ UNCHANGED <<measuring, values>>

(* Every wait of Senkusha has a timeout, and its thread goes on.            *)
SFairness ==
  /\ Fairness
  /\ WF_all((Measure!Run /\ UNCHANGED <<vars, values>>) \/ UseValues)

SSpec == SInit /\ [][SNext]_all /\ SFairness
-----------------------------------------------------------------------------
(* Each thread's state is of its type, and the stream connection begins     *)
(* after the measurement.                                                   *)
STypeOK ==
  /\ TypeOK /\ (pc # "used" => Measure!TypeOK /\ rpc = "off")
  /\ values \in {"none", "measured", "fallback"} /\ (values = "none" <=> pc # "used")

(* What Senkusha finds is never more than the network passes, and exactly   *)
(* that as long as no probe was lost, in either direction (senkusha.c:389,  *)
(* 455).                                                                    *)
MtuFound == pc # "used" => Measure!MtuPasses /\ Measure!MtuExact

(* No wait of Senkusha ends but by an answer or its timeout, as senkusha.c  *)
(* asserts after each of them.                                              *)
WaitsTimely == Measure!WaitsTimely

(* Whatever is lost, the measurement ends and the stream is begun with      *)
(* some values (session.c:711-721).                                         *)
MeasureEnds == (pc = "connect") ~> (values # "none")
=============================================================================
