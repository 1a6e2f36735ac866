-------------------------- MODULE ReadingLifecycle --------------------------
(***************************************************************************)
(* What the meter evidence cycle promises about each measured reading      *)
(* (src/src/store/spool.rs, PLAN.md section 13), whatever processes race   *)
(* over it and whenever they die.  A reading is                            *)
(*   unread    not durable yet: losing it is the provider's next sample    *)
(*   kept      durable in the spool                                        *)
(*   recorded  durable in the ledger                                       *)
(*   aside     durable in quarantine, for an operator                      *)
(* Once kept, a reading never becomes unread again; once recorded, it      *)
(* stays recorded.                                                         *)
(***************************************************************************)
CONSTANT Attempts

VARIABLE reading

States == {"unread", "kept", "recorded", "aside"}

\* Setting aside a damaged record is a rename, which a power loss may undo.
Moves == {<<"unread", "kept">>, <<"unread", "recorded">>, <<"unread", "aside">>,
          <<"kept", "recorded">>, <<"kept", "aside">>,
          <<"aside", "recorded">>, <<"aside", "kept">>}

Init == reading = [a \in Attempts |-> "unread"]

\* One fsync or one power loss settles several readings at once.
Next ==
    /\ reading' \in [Attempts -> States]
    /\ \A a \in Attempts : \/ reading'[a] = reading[a]
                           \/ <<reading[a], reading'[a]>> \in Moves

Spec == Init /\ [][Next]_reading

(***************************************************************************)
(* A kept reading does not stay in the spool for ever: some drain records  *)
(* it or sets it aside.                                                    *)
(***************************************************************************)
KeptIsSettled ==
    \A a \in Attempts : reading[a] = "kept" ~> reading[a] \in {"recorded", "aside"}
=============================================================================
