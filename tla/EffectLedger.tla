---------------------------- MODULE EffectLedger ----------------------------
(***************************************************************************)
(* What the dispatch of a job promises to the owner of the provider        *)
(* account.  Each attempt has three effects on the provider: prepare,      *)
(* start and stop.  An effect is opened at most once, behind the owner's   *)
(* consent and the effect before it, and called at most once.  An attempt  *)
(* that has ended opens nothing more and starts nothing more, and only     *)
(* then may the next attempt take its place.  A crash, a lost lease or a   *)
(* lost reply never reopens an effect: it leaves it open and uncalled, or  *)
(* called and unknown.                                                     *)
(***************************************************************************)
EXTENDS Naturals

CONSTANT Last      \* number of the last attempt the job may have

Numbers == 1..Last

VARIABLES consent, prepare, start, stop, ended, current

ledger == <<consent, prepare, start, stop, ended, current>>

Effects == {"closed", "open", "called"}

Init ==
    /\ consent = [a \in Numbers |-> "none"]
    /\ prepare = [a \in Numbers |-> "closed"]
    /\ start = [a \in Numbers |-> "closed"]
    /\ stop = [a \in Numbers |-> "closed"]
    /\ ended = [a \in Numbers |-> FALSE]
    /\ current = 1

\* Only the current attempt that has not ended can gain a consent or a permit.
Working(a) == a = current /\ ~ended[a]

Consent(a) ==
    /\ Working(a)
    /\ \/ consent[a] = "none" /\ consent' = [consent EXCEPT ![a] = "granted"]
       \/ consent[a] = "granted" /\ consent' = [consent EXCEPT ![a] = "consumed"]
    /\ UNCHANGED <<prepare, start, stop, ended, current>>

OpenPrepare(a) ==
    /\ Working(a)
    /\ consent[a] = "consumed"
    /\ prepare[a] = "closed"
    /\ prepare' = [prepare EXCEPT ![a] = "open"]
    /\ UNCHANGED <<consent, start, stop, ended, current>>

OpenStart(a) ==
    /\ Working(a)
    /\ prepare[a] # "closed"
    /\ start[a] = "closed"
    /\ start' = [start EXCEPT ![a] = "open"]
    /\ UNCHANGED <<consent, prepare, stop, ended, current>>

OpenStop(a) ==
    /\ Working(a)
    /\ start[a] # "closed"
    /\ stop[a] = "closed"
    /\ stop' = [stop EXCEPT ![a] = "open"]
    /\ UNCHANGED <<consent, prepare, start, ended, current>>

\* A late preparation or stop of an ended attempt is harmless, a late start is not.
CallPrepare(a) ==
    /\ prepare[a] = "open"
    /\ prepare' = [prepare EXCEPT ![a] = "called"]
    /\ UNCHANGED <<consent, start, stop, ended, current>>

CallStart(a) ==
    /\ Working(a)
    /\ start[a] = "open"
    /\ start' = [start EXCEPT ![a] = "called"]
    /\ UNCHANGED <<consent, prepare, stop, ended, current>>

CallStop(a) ==
    /\ stop[a] = "open"
    /\ stop' = [stop EXCEPT ![a] = "called"]
    /\ UNCHANGED <<consent, prepare, start, ended, current>>

End(a) ==
    /\ Working(a)
    /\ ended' = [ended EXCEPT ![a] = TRUE]
    /\ UNCHANGED <<consent, prepare, start, stop, current>>

Replace ==
    /\ ended[current]
    /\ current < Last
    /\ current' = current + 1
    /\ UNCHANGED <<consent, prepare, start, stop, ended>>

Next ==
    \/ \E a \in Numbers :
         \/ Consent(a) \/ End(a)
         \/ OpenPrepare(a) \/ OpenStart(a) \/ OpenStop(a)
         \/ CallPrepare(a) \/ CallStart(a) \/ CallStop(a)
    \/ Replace

Spec == Init /\ [][Next]_ledger
=============================================================================
