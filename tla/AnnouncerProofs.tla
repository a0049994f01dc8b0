--------------------------- MODULE AnnouncerProofs ---------------------------
(***************************************************************************)
(* What holds of the announcer whatever its gap, its startup hold and the  *)
(* announcements, dialogs and late timers there are.                       *)
(***************************************************************************)
EXTENDS Announcer, TLAPS

Texts == {"words", "connected", "marker"}
Times == Nat \cup {Never}
Lines == [text : Texts, closed : Nat, region : Regions \cup {Never}, at : Times, lost : BOOLEAN]
Typed ==
    /\ now \in Nat /\ drain \in Times /\ last \in Times /\ closed \in Nat
    /\ queue \in Seq(Nat) /\ said \in Seq(Lines) /\ dialogs \subseteq Dialogs

(***************************************************************************)
(* The queue is what has been announced and not drained, in order.  Why    *)
(* the gap holds: what is to be drained next is due no earlier than the    *)
(* gap after the last, and a drain is due exactly while something is       *)
(* queued.                                                                 *)
(***************************************************************************)
Done == Len(said) - Len(queue)
InOrder ==
    /\ Len(queue) <= Len(said)
    /\ \A i \in 1..Len(queue) : queue[i] = Done + i
    /\ \A i \in 1..Len(said) : said[i].at # Never <=> i <= Done
Due ==
    /\ drain = Never <=> queue = <<>>
    /\ drain # Never => drain >= STARTUP_HOLD
    /\ drain # Never /\ last # Never => drain >= last + SPACING
Spaced ==
    /\ last <= now
    /\ \A i \in 1..Done : /\ last # Never /\ said[i].at <= last /\ said[i].at >= STARTUP_HOLD
                          /\ \A j \in 1..Done : i < j => said[j].at >= said[i].at + SPACING
Inv == Typed /\ InOrder /\ Due /\ Spaced

LEMMA Constants == {SPACING, CLEAR_AFTER, STARTUP_HOLD} \subseteq Nat \ {0}
BY AnnouncerAssumption

LEMMA LatestOfThree ==
    ASSUME NEW a \in Int, NEW b \in Int, NEW c \in Int
    PROVE  LET l == Latest({a, b, c}) IN l \in {a, b, c} /\ l >= a /\ l >= b /\ l >= c
<1>1. \E x \in {a, b, c} : \A y \in {a, b, c} : y <= x
    <2>1. CASE a <= c /\ b <= c
        BY <2>1
    <2>2. CASE a <= b /\ c <= b
        BY <2>2
    <2>3. CASE b <= a /\ c <= a
        BY <2>3
    <2> QED BY <2>1, <2>2, <2>3
<1> QED BY <1>1 DEF Latest

LEMMA FrontIsARegion == ASSUME NEW open \in SUBSET Dialogs PROVE Front(open) \in Regions
<1> DEFINE S == {Document} \cup open
<1>1. S \subseteq 0..2 /\ 0 \in S
    BY DEF Document, Dialogs, New, Save
<1> HIDE DEF S
<1>2. \E x \in S : \A y \in S : y <= x
    <2>1. CASE 2 \in S
        BY <1>1, <2>1
    <2>2. CASE 2 \notin S /\ 1 \in S
        BY <1>1, <2>2
    <2>3. CASE 2 \notin S /\ 1 \notin S
        BY <1>1, <2>3
    <2> QED BY <2>1, <2>2, <2>3
<1>3. Latest(S) \in S
    BY <1>2 DEF Latest
<1> QED BY <1>3 DEF S, Front, Regions, Dialogs, Document, New, Save

LEMMA OneAfterTheOther ==
    ASSUME NEW S, NEW a \in Seq(S), NEW b \in Seq(S)
    PROVE  /\ a \o b \in Seq(S) /\ Len(a \o b) = Len(a) + Len(b)
           /\ \A i \in 1..Len(a) : (a \o b)[i] = a[i]
           /\ \A i \in Len(a) + 1..Len(a) + Len(b) :
                i - Len(a) \in 1..Len(b) /\ (a \o b)[i] = b[i - Len(a)]
OBVIOUS

\* Announcing puts lines at the end of both, and a drain is due if none was.
LEMMA HeldByAnnouncing ==
    ASSUME Inv, NEW texts \in Seq(Texts), texts # <<>>, Announced(texts), closed' \in Nat,
           dialogs' \subseteq Dialogs
    PROVE  Inv'
<1> DEFINE more  == [i \in 1..Len(texts) |-> Announcement(texts[i])]
           these == [i \in 1..Len(texts) |-> Len(said) + i]
           n     == Len(texts)
<1>1. n \in Nat /\ n > 0 /\ Len(said) \in Nat /\ Len(queue) \in Nat
    BY DEF Inv, Typed
<1>2. \A i \in 1..n : texts[i] \in Texts
    OBVIOUS
<1>3. \A i \in 1..n : Announcement(texts[i]) \in Lines /\ Announcement(texts[i]).at = Never
    BY <1>2 DEF Announcement, Lines, Times
<1>4. more \in Seq(Lines) /\ Len(more) = n /\ these \in Seq(Nat) /\ Len(these) = n
    BY <1>1, <1>3
<1>5. said' = said \o more /\ queue' = queue \o these /\ UNCHANGED <<now, last>>
    BY DEF Announced
<1>6. said \in Seq(Lines) /\ queue \in Seq(Nat) /\ now \in Nat /\ last \in Times /\ drain \in Times
    BY DEF Inv, Typed
<1>7. /\ said' \in Seq(Lines) /\ Len(said') = Len(said) + n
      /\ \A i \in 1..Len(said) : said'[i] = said[i]
      /\ \A i \in Len(said) + 1..Len(said') : said'[i].at = Never
    <2> HIDE DEF more, these, n
    <2>1. said' \in Seq(Lines) /\ Len(said') = Len(said) + n
        <3>1. more \in Seq(Lines) /\ Len(more) = n /\ said \in Seq(Lines) /\ said' = said \o more
            BY <1>4, <1>5, <1>6
        <3> QED BY <3>1, OneAfterTheOther
    <2>2. \A i \in 1..Len(said) : said'[i] = said[i]
        BY <1>4, <1>5, <1>6, OneAfterTheOther
    <2>3. \A i \in Len(said) + 1..Len(said') :
            i - Len(said) \in 1..n /\ said'[i] = more[i - Len(said)]
        BY <1>4, <1>5, <1>6, <2>1, OneAfterTheOther
    <2> QED BY <1>3, <2>1, <2>2, <2>3 DEF more, n
<1>8. /\ queue' \in Seq(Nat) /\ Len(queue') = Len(queue) + n
      /\ \A i \in 1..Len(queue) : queue'[i] = queue[i]
      /\ \A i \in Len(queue) + 1..Len(queue') : queue'[i] = Len(said) + (i - Len(queue))
    <2> HIDE DEF more, these, n
    <2>1. queue' \in Seq(Nat) /\ Len(queue') = Len(queue) + n
        <3>1. these \in Seq(Nat) /\ Len(these) = n /\ queue \in Seq(Nat) /\ queue' = queue \o these
            BY <1>4, <1>5, <1>6
        <3> QED BY <3>1, OneAfterTheOther
    <2>2. \A i \in 1..Len(queue) : queue'[i] = queue[i]
        BY <1>4, <1>5, <1>6, OneAfterTheOther
    <2>3. \A i \in Len(queue) + 1..Len(queue') :
            i - Len(queue) \in 1..n /\ queue'[i] = these[i - Len(queue)]
        BY <1>4, <1>5, <1>6, <2>1, OneAfterTheOther
    <2> QED BY <2>1, <2>2, <2>3 DEF these, n
<1>9. Done' = Done /\ Done \in Nat /\ Done <= Len(said)
    BY <1>1, <1>7, <1>8 DEF Done, Inv, InOrder
<1>10. InOrder'
    <2>1. Len(queue') <= Len(said')
        BY <1>1, <1>7, <1>8 DEF Inv, InOrder
    <2>2. \A i \in 1..Len(queue') : queue'[i] = Done + i
        <3> SUFFICES ASSUME NEW i \in 1..Len(queue') PROVE queue'[i] = Done + i
            OBVIOUS
        <3>1. CASE i <= Len(queue)
            BY <1>1, <1>8, <3>1 DEF Inv, InOrder
        <3>2. CASE i > Len(queue)
            BY <1>1, <1>8, <3>2 DEF Done
        <3> QED BY <1>1, <3>1, <3>2
    <2>3. \A i \in 1..Len(said') : said'[i].at # Never <=> i <= Done
        <3> SUFFICES ASSUME NEW i \in 1..Len(said') PROVE said'[i].at # Never <=> i <= Done
            OBVIOUS
        <3>1. CASE i <= Len(said)
            BY <1>1, <1>7, <3>1 DEF Inv, InOrder
        <3>2. CASE i > Len(said)
            BY <1>1, <1>7, <1>9, <3>2
        <3> QED BY <1>1, <3>1, <3>2
    <2> QED BY <1>9, <2>1, <2>2, <2>3 DEF InOrder
<1>11. Due' /\ drain' \in Times
    <2>1. queue' # <<>>
        BY <1>1, <1>8
    <2>2. CASE drain # Never
        BY <1>5, <1>6, <2>1, <2>2 DEF Announced, Due, Inv
    <2>3. CASE drain = Never
        <3>1. drain' = Latest({now, now + SPACING - Since(now), STARTUP_HOLD})
            BY <2>3 DEF Announced, scheduleDrain
        <3>2. Since(now) = IF last = Never THEN SPACING ELSE now - last
            BY DEF Since
        <3>3. /\ now \in Nat /\ SPACING \in Nat /\ STARTUP_HOLD \in Nat
              /\ now + SPACING - Since(now) \in Int
            BY <1>6, <3>2, Constants DEF Times, Never
        <3>4. drain' >= now /\ drain' >= STARTUP_HOLD /\ drain' \in Int
              /\ drain' >= now + SPACING - Since(now)
            <4> DEFINE gap == now + SPACING - Since(now)
            <4>1. gap \in Int /\ drain' = Latest({now, gap, STARTUP_HOLD})
                BY <3>1, <3>3
            <4> HIDE DEF gap
            <4>2. now \in Int /\ STARTUP_HOLD \in Int
                BY <3>3
            <4>3. /\ drain' \in {now, gap, STARTUP_HOLD}
                  /\ drain' >= now /\ drain' >= gap /\ drain' >= STARTUP_HOLD
                BY <4>1, <4>2, LatestOfThree
            <4>4. drain' \in Int
                BY <4>1, <4>2, <4>3
            <4> QED BY <4>3, <4>4 DEF gap
        <3>5. last # Never => drain' >= last + SPACING
            BY <1>6, <3>2, <3>3, <3>4 DEF Times, Never
        <3> QED BY <1>5, <2>1, <3>3, <3>4, <3>5 DEF Due, Times, Never
    <2> QED BY <2>2, <2>3
<1>12. Spaced'
    BY <1>5, <1>7, <1>9 DEF Spaced, Inv
<1> QED BY <1>5, <1>6, <1>7, <1>8, <1>10, <1>11, <1>12 DEF Inv, Typed

\* Draining takes the first of the queue, when it is due.
LEMMA HeldByDraining == Inv /\ drainOne => Inv'
<1> SUFFICES ASSUME Inv, drainOne PROVE Inv'
    OBVIOUS
<1> DEFINE line == Head(queue)
           then == [said[line] EXCEPT !.region = liveRegion, !.at = now,
                                      !.lost = liveRegion \in returned]
<1>1. /\ said \in Seq(Lines) /\ queue \in Seq(Nat) /\ now \in Nat /\ last \in Times
      /\ drain \in Times /\ drain # Never /\ drain <= now
    BY DEF Inv, Typed, drainOne
<1>2. queue # <<>> /\ Len(queue) \in Nat /\ Len(queue) > 0 /\ Len(said) \in Nat
    BY <1>1 DEF Inv, Due
<1>3. line = Done + 1 /\ line \in 1..Len(said) /\ Done \in Nat
    BY <1>1, <1>2 DEF Inv, InOrder, Done
<1>4. /\ queue' = Tail(queue) /\ last' = now
      /\ drain' = (IF Len(queue) > 1 THEN now + SPACING ELSE Never)
      /\ UNCHANGED <<now, dialogs, closed>>
    BY DEF drainOne, dialogVars
<1>5. said' = [said EXCEPT ![line] = then]
    BY <1>1, <1>3 DEF drainOne
<1>6. then \in Lines /\ then.at = now
    <2>1. said[line] \in Lines
        BY <1>1, <1>3
    <2>2. liveRegion \in Regions
        BY FrontIsARegion DEF liveRegion, Inv, Typed
    <2> DEFINE gone  == liveRegion \in returned
               moved == [said[line] EXCEPT !.region = liveRegion]
               timed == [moved EXCEPT !.at = now]
    <2>3. then = [timed EXCEPT !.lost = gone]
        OBVIOUS
    <2>4. gone \in BOOLEAN
        OBVIOUS
    <2> HIDE DEF gone, line
    <2>5. moved \in Lines
        BY <2>1, <2>2 DEF Lines
    <2> HIDE DEF moved
    <2>6. timed \in Lines /\ timed.at = now
        BY <1>1, <2>5 DEF Lines, Times
    <2> HIDE DEF timed, then
    <2> QED BY <2>3, <2>4, <2>6 DEF Lines
<1> HIDE DEF then, line
<1>7. /\ said' \in Seq(Lines) /\ Len(said') = Len(said) /\ said'[line].at = now
      /\ \A i \in 1..Len(said) : i # line => said'[i] = said[i]
    BY <1>1, <1>3, <1>5, <1>6
<1>8. /\ queue' \in Seq(Nat) /\ Len(queue') = Len(queue) - 1
      /\ \A i \in 1..Len(queue') : queue'[i] = queue[i + 1] /\ i + 1 \in 1..Len(queue)
    BY <1>1, <1>2, <1>4
<1>9. Done' = Done + 1
    BY <1>2, <1>7, <1>8 DEF Done
<1>10. SPACING \in Nat /\ STARTUP_HOLD \in Nat /\ now # Never /\ drain \in Nat
    BY <1>1, Constants DEF Times, Never
<1>11. InOrder'
    <2>1. \A i \in 1..Len(queue') : queue'[i] = Done + 1 + i
        <3> SUFFICES ASSUME NEW i \in 1..Len(queue') PROVE queue'[i] = Done + 1 + i
            OBVIOUS
        <3>1. queue'[i] = queue[i + 1] /\ queue[i + 1] = Done + (i + 1)
            BY <1>8 DEF Inv, InOrder
        <3> QED BY <1>3, <1>8, <3>1
    <2>2. \A i \in 1..Len(said') : said'[i].at # Never <=> i <= Done + 1
        <3> SUFFICES ASSUME NEW i \in 1..Len(said') PROVE said'[i].at # Never <=> i <= Done + 1
            OBVIOUS
        <3>1. CASE i = line
            BY <1>3, <1>7, <1>10, <3>1
        <3>2. CASE i # line
            BY <1>3, <1>7, <3>2 DEF Inv, InOrder
        <3> QED BY <3>1, <3>2
    <2>3. Len(queue') <= Len(said')
        <3>1. Len(queue) <= Len(said) /\ Len(said') = Len(said) /\ Len(queue') = Len(queue) - 1
            BY <1>7, <1>8 DEF Inv, InOrder
        <3> QED BY <1>2, <3>1
    <2> QED BY <1>9, <2>1, <2>2, <2>3 DEF InOrder
<1>12. Due' /\ drain' \in Times
    <2>1. queue' = <<>> <=> Len(queue) <= 1
        BY <1>2, <1>8
    <2>2. drain >= STARTUP_HOLD
        BY <1>1 DEF Inv, Due
    <2> QED BY <1>1, <1>2, <1>4, <1>10, <2>1, <2>2 DEF Due, Times, Never
<1>13. Spaced'
    <2>1. last # Never => now >= last + SPACING
        BY <1>1, <1>10 DEF Inv, Due, Times, Never
    <2>2. now >= STARTUP_HOLD
        BY <1>1, <1>10 DEF Inv, Due
    <2>3. \A i \in 1..Done : said'[i] = said[i] /\ said[i].at \in Times
        <3> SUFFICES ASSUME NEW i \in 1..Done PROVE said'[i] = said[i] /\ said[i].at \in Times
            OBVIOUS
        <3>1. i \in 1..Len(said) /\ i # line
            BY <1>1, <1>2, <1>3
        <3>2. said[i] \in Lines
            BY <1>1, <3>1
        <3> QED BY <1>7, <3>1, <3>2 DEF Lines
    <2>4. \A i \in 1..Done : /\ last # Never /\ said[i].at <= last /\ said[i].at >= STARTUP_HOLD
                             /\ \A j \in 1..Done : i < j => said[j].at >= said[i].at + SPACING
        BY DEF Inv, Spaced
    <2>5. \A i \in 1..Done : said[i].at + SPACING <= now
        <3> SUFFICES ASSUME NEW i \in 1..Done PROVE said[i].at + SPACING <= now
            OBVIOUS
        <3>1. last \in Nat /\ now >= last + SPACING /\ said[i].at \in Int /\ said[i].at <= last
            BY <1>1, <2>1, <2>3, <2>4 DEF Times, Never
        <3> QED BY <1>1, <1>10, <3>1
    <2>6. \A i \in 1..Done + 1 : i \in 1..Done \/ i = line
        BY <1>3
    <2>7. ASSUME NEW i \in 1..Done + 1
          PROVE  /\ now # Never /\ said'[i].at <= now /\ said'[i].at >= STARTUP_HOLD
                 /\ \A j \in 1..Done + 1 : i < j => said'[j].at >= said'[i].at + SPACING
        <3>1. CASE i = line
            BY <1>1, <1>3, <1>7, <1>10, <2>2, <3>1
        <3>2. CASE i \in 1..Done
            <4>1. said'[i].at = said[i].at /\ said[i].at \in Times /\ said[i].at + SPACING <= now
                BY <2>3, <2>5, <3>2
            <4>2. \A j \in 1..Done + 1 : i < j => said'[j].at >= said'[i].at + SPACING
                <5> SUFFICES ASSUME NEW j \in 1..Done + 1, i < j
                             PROVE  said'[j].at >= said'[i].at + SPACING
                    OBVIOUS
                <5>1. CASE j = line
                    BY <1>1, <1>7, <1>10, <4>1, <5>1 DEF Times, Never
                <5>2. CASE j \in 1..Done
                    BY <2>3, <2>4, <3>2, <5>2
                <5> QED BY <2>6, <5>1, <5>2
            <4> QED BY <1>1, <1>10, <2>4, <3>2, <4>1, <4>2 DEF Times, Never
        <3> QED BY <2>6, <3>1, <3>2
    <2> QED BY <1>1, <1>4, <1>9, <2>7 DEF Spaced
<1>14. now' \in Nat /\ last' \in Times /\ closed' \in Nat /\ dialogs' \subseteq Dialogs
    BY <1>1, <1>4 DEF Inv, Typed, Times
<1> QED BY <1>7, <1>8, <1>11, <1>12, <1>13, <1>14 DEF Inv, Typed

\* A step of a dialog that says nothing, and the passing of time.
LEMMA HeldOtherwise ==
    ASSUME Inv, UNCHANGED <<queue, drain, last, said>>, now' \in Nat, now' >= now,
           closed' \in Nat, dialogs' \subseteq Dialogs
    PROVE  Inv'
<1>1. last \in Times /\ now \in Nat
    BY DEF Inv, Typed
<1>2. last <= now'
    BY <1>1 DEF Inv, Spaced, Times, Never
<1>3. Typed' /\ InOrder' /\ Due' /\ Done' = Done
    BY DEF Inv, Typed, InOrder, Due, Done
<1> QED BY <1>2, <1>3 DEF Inv, Spaced

LEMMA HeldByNext == Inv /\ [Next]_vars => Inv'
<1> SUFFICES ASSUME Inv, [Next]_vars PROVE Inv'
    OBVIOUS
<1>1. now \in Nat /\ closed \in Nat /\ dialogs \subseteq Dialogs /\ closed + 1 \in Nat
    BY DEF Inv, Typed
<1>2. CASE announce
    <2>1. <<"words">> \in Seq(Texts) /\ <<"words">> # <<>>
        BY DEF Texts
    <2> QED BY <1>1, <1>2, <2>1, HeldByAnnouncing DEF announce, dialogVars
<1>3. CASE drainOne
    BY <1>3, HeldByDraining
<1>4. CASE started
    <2>1. documentReturned_sayConnected \in Seq(Texts) /\ documentReturned_sayConnected # <<>>
        BY DEF documentReturned_sayConnected, Texts
    <2> QED BY <1>1, <1>4, <2>1, HeldByAnnouncing DEF started, Closes
<1>5. CASE saved
    <2>1. <<"marker", "words">> \in Seq(Texts) /\ <<"marker", "words">> # <<>>
        BY DEF Texts
    <2> QED BY <1>1, <1>5, <2>1, HeldByAnnouncing DEF saved, Closes
<1>6. CASE (\E r \in Regions : clear(r)) \/ Tick \/ UNCHANGED vars
    <2>1. UNCHANGED <<queue, drain, last, said, dialogs, closed>> /\ (now' = now \/ now' = now + 1)
        BY <1>6 DEF clear, Tick, vars, dialogVars
    <2> QED BY <1>1, <2>1, HeldOtherwise
<1>7. CASE open_new \/ leave \/ offerToSave \/ settles
    <2>1. /\ UNCHANGED <<now, queue, drain, last, said>> /\ closed' \in Nat
          /\ dialogs' \subseteq Dialogs
        BY <1>1, <1>7
           DEF open_new, leave, offerToSave, settles, settle, Opens, Closes, Dialogs
    <2> QED BY <1>1, <2>1, HeldOtherwise
<1> QED BY <1>2, <1>3, <1>4, <1>5, <1>6, <1>7 DEF Next

LEMMA HeldAtFirst == Init => Inv
<1> SUFFICES ASSUME Init PROVE Inv
    OBVIOUS
<1>1. Len(said) = 0 /\ Len(queue) = 0 /\ Done = 0 /\ said = <<>> /\ queue = <<>>
    BY DEF Init, Done
<1> QED BY <1>1 DEF Init, Inv, Typed, InOrder, Due, Spaced, Times, Never, Dialogs

(***************************************************************************)
(* Announcements reach the reader in order and never closer than the gap,  *)
(* whichever regions they go to and however late the timers fire, and none *)
(* does before the startup hold is over.                                   *)
(***************************************************************************)
THEOREM TheGapIsKept == Spec => []AnnouncementsAreApart
<1>1. Inv => AnnouncementsAreApart
    <2> SUFFICES ASSUME Inv PROVE AnnouncementsAreApart
        OBVIOUS
    <2>1. DOMAIN said = 1..Len(said) /\ Len(said) \in Nat /\ Len(queue) \in Nat
        BY DEF Inv, Typed
    <2>2. Done \in Int /\ Done <= Len(said)
        BY <2>1 DEF Done
    <2>3. Drained = 1..Done
        BY <2>1, <2>2 DEF Drained, Inv, InOrder
    <2> QED BY <2>1, <2>2, <2>3 DEF AnnouncementsAreApart, Inv, Spaced
<1> QED BY HeldAtFirst, HeldByNext, <1>1, PTL DEF Spec

\* What had been announced before an offer was made stays drained.
Backed ==
    offer.stage = "offered"
        => /\ offer.before \in 0..Done
           /\ \A i \in 1..offer.before : said[i].at + SPACING <= offer.at

LEMMA BackedByAnnouncing ==
    ASSUME Inv, Inv', Backed, NEW texts \in Seq(Texts), Announced(texts),
           UNCHANGED offer \/ offer'.stage # "offered"
    PROVE  Backed'
<1> SUFFICES ASSUME offer.stage = "offered", UNCHANGED offer PROVE Backed'
    BY DEF Backed
<1>1. said \in Seq(Lines) /\ queue \in Seq(Nat) /\ Len(said) \in Nat /\ Len(queue) \in Nat
    BY DEF Inv, Typed
<1> DEFINE more  == [i \in 1..Len(texts) |-> Announcement(texts[i])]
           these == [i \in 1..Len(texts) |-> Len(said) + i]
<1>2. said' = said \o more /\ queue' = queue \o these
    BY DEF Announced
<1>3. /\ \A i \in 1..Len(said) : said'[i] = said[i]
      /\ Len(said') = Len(said) + Len(texts) /\ Len(queue') = Len(queue) + Len(texts)
    BY <1>1, <1>2
<1>4. Done' = Done /\ Done \in Int /\ Done <= Len(said)
    BY <1>1, <1>3 DEF Done
<1>5. \A i \in 1..offer.before : said'[i] = said[i]
    BY <1>1, <1>3, <1>4 DEF Backed
<1> QED BY <1>4, <1>5 DEF Backed

LEMMA BackedByDraining == ASSUME Inv, Inv', Backed, drainOne PROVE Backed'
<1> SUFFICES ASSUME offer.stage = "offered" PROVE Backed'
    BY DEF Backed, drainOne, dialogVars
<1>1. /\ said \in Seq(Lines) /\ queue \in Seq(Nat) /\ Len(said) \in Nat /\ Len(queue) \in Nat
      /\ queue # <<>>
    BY DEF Inv, Typed, Due, drainOne
<1>2. Head(queue) = Done + 1 /\ Head(queue) \in 1..Len(said) /\ Done \in Nat
    BY <1>1 DEF Inv, InOrder, Done
<1>3. UNCHANGED offer /\ Len(said') = Len(said) /\ Len(queue') = Len(queue) - 1
      /\ \A i \in 1..Len(said) : i # Head(queue) => said'[i] = said[i]
    BY <1>1, <1>2 DEF drainOne, dialogVars
<1>4. Done' = Done + 1
    BY <1>1, <1>3 DEF Done
<1>5. \A i \in 1..offer.before : said'[i] = said[i]
    BY <1>1, <1>2, <1>3 DEF Backed
<1> QED BY <1>2, <1>3, <1>4, <1>5 DEF Backed

\* An offer is made only when all that was announced has been drained, and the
\* gap after the last of it has passed.
LEMMA BackedBySettling ==
    ASSUME Inv, NEW before, settle(before)
    PROVE  Backed'
<1>1. UNCHANGED <<said, queue>> /\ said \in Seq(Lines) /\ Len(said) \in Nat
    BY DEF settle, Inv, Typed
<1>2. CASE ~SaidAndSpaced
    BY <1>2 DEF settle, Settling, Backed
<1>3. CASE SaidAndSpaced
    <2>1. offer' = [stage |-> "offered", before |-> Len(said), at |-> now]
        BY <1>3 DEF settle
    <2>2. queue = <<>> /\ Done = Len(said) /\ Done' = Done
        BY <1>1, <1>3 DEF SaidAndSpaced, Quiet, Done
    <2>3. \A i \in 1..Len(said) : said[i].at + SPACING <= now
        <3> SUFFICES ASSUME NEW i \in 1..Len(said) PROVE said[i].at + SPACING <= now
            OBVIOUS
        <3>1. last # Never /\ said[i].at <= last
            BY <2>2 DEF Inv, Spaced
        <3>2. SPACING - (now - last) <= 0
            BY <1>3, <3>1 DEF SaidAndSpaced, Owed, Since
        <3>3. said[i].at \in Int /\ last \in Int /\ now \in Int /\ SPACING \in Int
            <4>1. said[i] \in Lines /\ last \in Times /\ now \in Nat
                BY <1>1 DEF Inv, Typed
            <4> QED BY <4>1, Constants DEF Lines, Times, Never
        <3> QED BY <3>1, <3>2, <3>3
    <2> QED BY <1>1, <2>1, <2>2, <2>3 DEF Backed
<1> QED BY <1>2, <1>3

LEMMA BackedByNext == Inv /\ Backed /\ [Next]_vars => Backed'
<1> SUFFICES ASSUME Inv, Backed, [Next]_vars PROVE Backed'
    OBVIOUS
<1>1. Inv'
    BY HeldByNext
<1>2. CASE announce
    <2>1. <<"words">> \in Seq(Texts)
        BY DEF Texts
    <2> QED BY <1>1, <1>2, <2>1, BackedByAnnouncing DEF announce, dialogVars
<1>3. CASE drainOne
    BY <1>1, <1>3, BackedByDraining
<1>4. CASE started
    <2>1. documentReturned_sayConnected \in Seq(Texts)
        BY DEF documentReturned_sayConnected, Texts
    <2>2. offer'.stage # "offered"
        BY <1>4 DEF started, Asking
    <2> QED BY <1>1, <1>4, <2>1, <2>2, BackedByAnnouncing DEF started
<1>5. CASE saved
    <2>1. <<"marker", "words">> \in Seq(Texts)
        BY DEF Texts
    <2> QED BY <1>1, <1>5, <2>1, BackedByAnnouncing DEF saved
<1>6. CASE (\E r \in Regions : clear(r)) \/ Tick \/ open_new \/ leave \/ UNCHANGED vars
    <2>1. UNCHANGED <<queue, said, offer>>
        BY <1>6 DEF clear, Tick, open_new, leave, vars, dialogVars
    <2> QED BY <2>1 DEF Backed, Done
<1>7. CASE offerToSave
    <2>1. CASE settle(Len(said))
        BY <2>1, BackedBySettling
    <2>2. CASE offer' = NoOffer
        BY <2>2 DEF NoOffer, Backed
    <2> QED BY <1>7, <2>1, <2>2 DEF offerToSave
<1>8. CASE settles
    BY <1>8, BackedBySettling DEF settles
<1> QED BY <1>2, <1>3, <1>4, <1>5, <1>6, <1>7, <1>8 DEF Next

(***************************************************************************)
(* Nothing announced before the Save dialog was offered is left to drain   *)
(* into it: all of it was drained, and the gap had passed.                 *)
(***************************************************************************)
THEOREM TheOfferWaits == Spec => []NothingSpillsIntoTheOffer
<1>1. Init => Backed
    BY DEF Init, NoOffer, Backed
<1>2. Inv /\ Backed => NothingSpillsIntoTheOffer
    <2> SUFFICES ASSUME Inv, Backed, offer.stage = "offered", NEW i \in 1..offer.before
                 PROVE  i \in Drained /\ said[i].at + SPACING <= offer.at
        BY DEF NothingSpillsIntoTheOffer
    <2>1. DOMAIN said = 1..Len(said) /\ Len(said) \in Nat /\ Len(queue) \in Nat
        BY DEF Inv, Typed
    <2>2. Done \in Int /\ Done <= Len(said)
        BY <2>1 DEF Done
    <2>3. i \in 1..Done
        BY <2>2 DEF Backed
    <2> QED BY <2>1, <2>2, <2>3 DEF Drained, Inv, InOrder, Backed
<1> QED BY HeldAtFirst, HeldByNext, BackedByNext, <1>1, <1>2, PTL DEF Spec

\* A region is emptied no earlier than the time due to the last line it was
\* given, and so to every one.
Standing ==
    /\ regions \in [Regions -> Seq(Nat)] /\ clears \in [Regions -> Times]
    /\ \A i \in 1..Done :
         LET r == said[i].region
         IN  /\ r \in Regions
             /\ now < said[i].at + CLEAR_AFTER
                  => /\ clears[r] # Never /\ clears[r] >= said[i].at + CLEAR_AFTER
                     /\ \E k \in 1..Len(regions[r]) : regions[r][k] = i

LEMMA StandingByDraining == ASSUME Inv, Inv', Standing, drainOne PROVE Standing'
<1> DEFINE line == Head(queue)
           r    == liveRegion
<1>1. /\ said \in Seq(Lines) /\ queue \in Seq(Nat) /\ Len(said) \in Nat /\ Len(queue) \in Nat
      /\ queue # <<>> /\ now \in Nat /\ last \in Times
    BY DEF Inv, Typed, Due, drainOne
<1>2. line = Done + 1 /\ line \in 1..Len(said) /\ line \in Nat /\ Done \in Nat
    BY <1>1 DEF Inv, InOrder, Done
<1>3. r \in Regions
    BY FrontIsARegion DEF liveRegion, Inv, Typed
<1>4. /\ Len(said') = Len(said) /\ Len(queue') = Len(queue) - 1
      /\ \A i \in 1..Len(said) : i # line => said'[i] = said[i]
    BY <1>1, <1>2 DEF drainOne
<1>5. said'[line].region = r /\ said'[line].at = now
    BY <1>1, <1>2 DEF drainOne, Lines
<1>6. Done' = Done + 1
    BY <1>1, <1>4 DEF Done
<1>7. CLEAR_AFTER \in Nat
    BY Constants
<1>8. /\ regions' = [regions EXCEPT ![r] = Append(regions[r], line)]
      /\ clears' = [clears EXCEPT ![r] = now + CLEAR_AFTER] /\ now' = now
    BY <1>3 DEF drainOne, Restarted, Standing
<1>9. /\ regions[r] \in Seq(Nat) /\ Len(regions[r]) \in Nat
      /\ regions'[r] = Append(regions[r], line) /\ clears'[r] = now + CLEAR_AFTER
      /\ \A q \in Regions \ {r} : regions'[q] = regions[q] /\ clears'[q] = clears[q]
    BY <1>3, <1>8 DEF Standing
<1>10. regions' \in [Regions -> Seq(Nat)] /\ clears' \in [Regions -> Times]
    <2>1. Append(regions[r], line) \in Seq(Nat) /\ now + CLEAR_AFTER \in Times
        BY <1>1, <1>2, <1>7, <1>9 DEF Times
    <2> HIDE DEF line
    <2> QED BY <1>8, <2>1 DEF Standing
<1>11. /\ Len(regions'[r]) = Len(regions[r]) + 1 /\ regions'[r][Len(regions[r]) + 1] = line
       /\ \A k \in 1..Len(regions[r]) : regions'[r][k] = regions[r][k]
    BY <1>2, <1>9
<1> HIDE DEF line, r
<1>12. ASSUME NEW i \in 1..Done + 1
       PROVE  LET q == said'[i].region
              IN  /\ q \in Regions
                  /\ now < said'[i].at + CLEAR_AFTER
                       => /\ clears'[q] # Never /\ clears'[q] >= said'[i].at + CLEAR_AFTER
                          /\ \E k \in 1..Len(regions'[q]) : regions'[q][k] = i
    <2>1. CASE i = line
        <3>1. /\ clears'[r] # Never /\ clears'[r] >= now + CLEAR_AFTER
              /\ \E k \in 1..Len(regions'[r]) : regions'[r][k] = i
            BY <1>1, <1>7, <1>9, <1>11, <2>1 DEF Never
        <3>2. said'[i].region = r /\ said'[i].at = now
            BY <1>5, <2>1
        <3> QED BY <1>3, <3>1, <3>2
    <2>2. CASE i # line
        <3>1. i \in 1..Done /\ i \in 1..Len(said) /\ said'[i] = said[i]
            BY <1>2, <1>4, <2>2
        <3> DEFINE q == said[i].region
        <3>2. /\ q \in Regions
              /\ now < said[i].at + CLEAR_AFTER
                   => /\ clears[q] # Never /\ clears[q] >= said[i].at + CLEAR_AFTER
                      /\ \E k \in 1..Len(regions[q]) : regions[q][k] = i
            BY <3>1 DEF Standing
        <3>3. CASE q # r
            BY <1>9, <3>1, <3>2, <3>3
        <3>4. CASE q = r
            <4>1. said[i].at <= now /\ said[i].at \in Int
                <5>1. said[i].at <= last /\ last # Never /\ last <= now
                    BY <3>1 DEF Inv, Spaced
                <5>2. said[i] \in Lines
                    BY <1>1, <3>1
                <5>3. said[i].at \in Int /\ last \in Int /\ now \in Int
                    BY <1>1, <5>2 DEF Lines, Times, Never
                <5> QED BY <5>1, <5>3
            <4>2. clears'[q] # Never /\ clears'[q] >= said[i].at + CLEAR_AFTER
                BY <1>1, <1>7, <1>9, <3>4, <4>1 DEF Never
            <4>3. (\E k \in 1..Len(regions[q]) : regions[q][k] = i)
                    => \E k \in 1..Len(regions'[q]) : regions'[q][k] = i
                BY <1>9, <1>11, <3>4
            <4> QED BY <3>1, <3>2, <4>2, <4>3
        <3> QED BY <3>3, <3>4
    <2> QED BY <2>1, <2>2
<1> QED BY <1>6, <1>8, <1>10, <1>12 DEF Standing

LEMMA StandingByNext == Inv /\ Standing /\ [Next]_vars => Standing'
<1> SUFFICES ASSUME Inv, Standing, [Next]_vars PROVE Standing'
    OBVIOUS
<1>1. Inv' /\ now \in Nat /\ CLEAR_AFTER \in Nat
    BY HeldByNext, Constants DEF Inv, Typed
<1>2. \A i \in 1..Done : said[i].at \in Int
    <2>1. said \in Seq(Lines) /\ Len(queue) \in Nat /\ Done <= Len(said) /\ Done \in Int
        BY DEF Inv, Typed, Done
    <2>2. \A i \in 1..Done : said[i] \in Lines
        BY <2>1
    <2> QED BY <2>2 DEF Lines, Times, Never
\* Whatever announces leaves what is drained, and where it stands, alone.
<1>3. ASSUME NEW texts \in Seq(Texts), Announced(texts) PROVE Standing'
    <2> DEFINE more  == [i \in 1..Len(texts) |-> Announcement(texts[i])]
               these == [i \in 1..Len(texts) |-> Len(said) + i]
    <2>1. said \in Seq(Lines) /\ queue \in Seq(Nat) /\ Len(said) \in Nat /\ Len(queue) \in Nat
        BY DEF Inv, Typed
    <2>2. said' = said \o more /\ queue' = queue \o these /\ UNCHANGED <<now, regions, clears>>
        BY <1>3 DEF Announced
    <2>3. /\ \A i \in 1..Len(said) : said'[i] = said[i]
          /\ Len(said') = Len(said) + Len(texts) /\ Len(queue') = Len(queue) + Len(texts)
        BY <2>1, <2>2
    <2>4. Done' = Done /\ Done \in Int /\ Done <= Len(said)
        BY <2>1, <2>3 DEF Done
    <2>5. \A i \in 1..Done : said'[i] = said[i]
        BY <2>1, <2>3, <2>4
    <2>6. UNCHANGED <<now, regions, clears>>
        BY <2>2
    <2> QED BY <2>4, <2>5, <2>6 DEF Standing
<1>4. CASE announce \/ started \/ saved
    <2>1. /\ <<"words">> \in Seq(Texts) /\ <<"marker", "words">> \in Seq(Texts)
          /\ documentReturned_sayConnected \in Seq(Texts)
        BY DEF Texts, documentReturned_sayConnected
    <2> QED BY <1>3, <1>4, <2>1 DEF announce, started, saved
<1>5. CASE drainOne
    BY <1>1, <1>5, StandingByDraining
<1>6. ASSUME NEW r \in Regions, clear(r) PROVE Standing'
    <2>1. /\ UNCHANGED <<now, queue, said>> /\ clears[r] <= now
          /\ regions' = [regions EXCEPT ![r] = <<>>] /\ clears' = [clears EXCEPT ![r] = Never]
        BY <1>6 DEF clear
    <2>2. regions' \in [Regions -> Seq(Nat)] /\ clears' \in [Regions -> Times] /\ Done' = Done
        BY <2>1 DEF Standing, Times, Done
    <2>3. \A q \in Regions \ {r} : regions'[q] = regions[q] /\ clears'[q] = clears[q]
        BY <2>1 DEF Standing
    <2>4. ASSUME NEW i \in 1..Done, said[i].region = r, now < said[i].at + CLEAR_AFTER PROVE FALSE
        <3>1. clears[r] >= said[i].at + CLEAR_AFTER /\ clears[r] \in Int
            BY <2>4 DEF Standing, Times, Never
        <3> QED BY <1>1, <1>2, <2>1, <2>4, <3>1
    <2>5. ASSUME NEW i \in 1..Done
          PROVE  LET q == said[i].region
                 IN  /\ q \in Regions
                     /\ now < said[i].at + CLEAR_AFTER
                          => /\ clears'[q] # Never /\ clears'[q] >= said[i].at + CLEAR_AFTER
                             /\ \E k \in 1..Len(regions'[q]) : regions'[q][k] = i
        BY <2>3, <2>4 DEF Standing
    <2>6. UNCHANGED <<now, said>>
        BY <2>1
    <2> QED BY <2>2, <2>5, <2>6 DEF Standing
<1>7. CASE open_new \/ leave \/ offerToSave \/ settles \/ UNCHANGED vars
    <2>1. UNCHANGED <<now, queue, said, regions, clears>>
        BY <1>7 DEF open_new, leave, offerToSave, settles, settle, vars
    <2> QED BY <2>1 DEF Standing, Done
<1>8. CASE Tick
    <2>1. UNCHANGED <<queue, said, regions, clears>> /\ now' = now + 1
        BY <1>8 DEF Tick
    <2>2. Done' = Done
        BY <2>1 DEF Done
    <2>3. \A i \in 1..Done : now' < said[i].at + CLEAR_AFTER => now < said[i].at + CLEAR_AFTER
        BY <1>1, <1>2, <2>1
    <2> QED BY <2>1, <2>2, <2>3 DEF Standing
<1> QED BY <1>4, <1>5, <1>6, <1>7, <1>8 DEF Next

(***************************************************************************)
(* A line stands in its region for as long as a reader may need, whatever  *)
(* is drained after it.                                                    *)
(***************************************************************************)
THEOREM EveryLineStands == Spec => []TextStands
<1>1. Init => Standing
    BY DEF Init, Standing, Done, Times
<1>2. Inv /\ Standing => TextStands
    <2> SUFFICES ASSUME Inv, Standing, NEW i \in Drained, now < said[i].at + CLEAR_AFTER
                 PROVE  \E k \in DOMAIN regions[said[i].region] : regions[said[i].region][k] = i
        BY DEF TextStands
    <2>1. DOMAIN said = 1..Len(said) /\ Len(said) \in Nat /\ Len(queue) \in Nat
        BY DEF Inv, Typed
    <2>2. i \in 1..Done
        BY <2>1 DEF Drained, Inv, InOrder, Done
    <2>3. regions[said[i].region] \in Seq(Nat)
        BY <2>2 DEF Standing
    <2> QED BY <2>2, <2>3 DEF Standing
<1> QED BY HeldAtFirst, HeldByNext, StandingByNext, <1>1, <1>2, PTL DEF Spec

(***************************************************************************)
(* Only the first that is queued can be lost, and only while the region in *)
(* front has just returned: the wordless change that is queued with what   *)
(* tells of a connection, or whatever is before it, takes that place.      *)
(***************************************************************************)
Heard ==
    /\ returned \cap Dialogs \subseteq dialogs
    /\ Save \in dialogs => offer.stage = "offered"
    /\ \A i \in 1..Len(said) : said[i].closed <= closed
    /\ \A i \in 1..Done : said[i].text = "connected" /\ said[i].lost => said[i].closed < closed
    /\ queue # <<>> /\ said[Done + 1].text = "connected" /\ said[Done + 1].closed = closed
         => liveRegion \notin returned

LEMMA TheFrontIsTheLast ==
    ASSUME NEW open \in SUBSET Dialogs
    PROVE  /\ Save \in open => Front(open) = Save
           /\ open = {New} => Front(open) = New
           /\ Front(open) \in {Document} \cup open
           /\ open # {} => Front(open) \in open
<1> DEFINE S == {Document} \cup open
<1>1. S \subseteq 0..2 /\ 0 \in S
    BY DEF Document, Dialogs, New, Save
<1>2. \E x \in S : \A y \in S : y <= x
    <2> HIDE DEF S
    <2>1. CASE 2 \in S
        BY <1>1, <2>1
    <2>2. CASE 2 \notin S /\ 1 \in S
        BY <1>1, <2>2
    <2>3. CASE 2 \notin S /\ 1 \notin S
        BY <1>1, <2>3
    <2> QED BY <2>1, <2>2, <2>3
<1>3. Latest(S) \in S /\ \A y \in S : y <= Latest(S)
    BY <1>2 DEF Latest
<1>4. Front(open) = Latest(S)
    BY DEF Front
<1>5. (\A x \in open : x \in S) /\ S = {Document} \cup open
    OBVIOUS
<1> HIDE DEF S
<1>6. Front(open) \in S /\ Front(open) \in 0..2 /\ \A y \in S : y <= Front(open)
    BY <1>1, <1>3, <1>4
<1>7. Save \in open => Front(open) = Save
    <2>1. Save = 2
        BY DEF Save
    <2> QED BY <1>5, <1>6, <2>1
<1>8. open # {} => Front(open) # Document
    <2>1. \A x \in open : x \in 1..2
        BY DEF Dialogs, New, Save
    <2>2. Document = 0
        BY DEF Document
    <2> QED BY <1>5, <1>6, <2>1, <2>2
<1> QED BY <1>5, <1>6, <1>7, <1>8

\* Announcing, by itself or as a dialog closes.
LEMMA HeardByAnnouncing ==
    ASSUME Inv, Inv', Heard, NEW texts \in Seq(Texts), texts # <<>>, Announced(texts),
           texts[1] # "connected",
           returned' \cap Dialogs \subseteq dialogs', Save \in dialogs' => offer'.stage = "offered",
           \/ UNCHANGED <<closed, returned, dialogs>>
           \/ closed' = closed + 1
    PROVE  Heard'
<1> DEFINE more  == [i \in 1..Len(texts) |-> Announcement(texts[i])]
           these == [i \in 1..Len(texts) |-> Len(said) + i]
<1>1. /\ said \in Seq(Lines) /\ queue \in Seq(Nat) /\ Len(said) \in Nat /\ Len(queue) \in Nat
      /\ Len(texts) \in Nat /\ Len(texts) > 0 /\ closed \in Nat
    BY DEF Inv, Typed
<1>2. said' = said \o more /\ queue' = queue \o these
    BY DEF Announced
<1>3. /\ Len(said') = Len(said) + Len(texts) /\ Len(queue') = Len(queue) + Len(texts)
      /\ \A i \in 1..Len(said) : said'[i] = said[i]
    BY <1>1, <1>2
<1>4. \A i \in Len(said) + 1..Len(said') :
        said'[i].closed = closed' /\ said'[i].text = texts[i - Len(said)]
    <2>1. \A i \in Len(said) + 1..Len(said') :
            i - Len(said) \in 1..Len(texts) /\ said'[i] = more[i - Len(said)]
        <3> HIDE DEF more
        <3>1. more \in Seq(Lines) /\ Len(more) = Len(texts)
            <4>1. \A i \in 1..Len(texts) : Announcement(texts[i]) \in Lines
                <5>1. closed' \in Nat
                    BY DEF Inv, Typed
                <5> QED BY <5>1 DEF Announcement, Lines, Times
            <4> QED BY <1>1, <4>1 DEF more
        <3>2. said' = said \o more /\ Len(said') = Len(said) + Len(texts)
            BY <1>2, <1>3
        <3> QED BY <1>1, <3>1, <3>2, OneAfterTheOther
    <2>2. \A i \in 1..Len(texts) : /\ more[i].closed = closed'
                                   /\ more[i].text = texts[i]
        BY DEF Announcement
    <2> HIDE DEF more
    <2> QED BY <2>1, <2>2
<1> HIDE DEF more, these
<1>5. Done' = Done /\ Done \in Nat /\ Done <= Len(said)
    BY <1>1, <1>3 DEF Done, Inv, InOrder
<1>6. closed <= closed' /\ closed' \in Nat
    BY <1>1
<1>7. \A i \in 1..Len(said) : said[i].closed <= closed /\ said[i].closed \in Nat
    <2>1. \A i \in 1..Len(said) : said[i] \in Lines
        BY <1>1
    <2> QED BY <2>1 DEF Heard, Lines
<1>8. \A i \in 1..Len(said') : said'[i].closed <= closed'
    <2> SUFFICES ASSUME NEW i \in 1..Len(said') PROVE said'[i].closed <= closed'
        OBVIOUS
    <2>1. CASE i \in 1..Len(said)
        BY <1>1, <1>3, <1>6, <1>7, <2>1
    <2>2. CASE i \in Len(said) + 1..Len(said')
        BY <1>4, <1>6, <2>2
    <2> QED BY <1>1, <1>3, <2>1, <2>2
<1>9. \A i \in 1..Done : said'[i].text = "connected" /\ said'[i].lost => said'[i].closed < closed'
    <2> SUFFICES ASSUME NEW i \in 1..Done, said'[i].text = "connected", said'[i].lost
                 PROVE  said'[i].closed < closed'
        OBVIOUS
    <2>1. i \in 1..Len(said) /\ said'[i] = said[i]
        BY <1>1, <1>3, <1>5
    <2>2. said[i].closed < closed
        BY <2>1 DEF Heard
    <2> QED BY <1>1, <1>6, <1>7, <2>1, <2>2
<1>10. ASSUME said'[Done + 1].text = "connected", said'[Done + 1].closed = closed'
       PROVE  liveRegion' \notin returned'
    <2>1. CASE queue = <<>>
        <3>1. Done = Len(said)
            BY <2>1 DEF Done
        <3>2. said'[Done + 1].text = texts[1]
            BY <1>1, <1>3, <1>4, <3>1
        <3> QED BY <1>10, <3>2
    <2>2. CASE queue # <<>>
        <3>1. Done + 1 \in 1..Len(said)
            BY <1>1, <1>5, <2>2 DEF Done
        <3>2. said'[Done + 1] = said[Done + 1] /\ said[Done + 1].closed <= closed
            BY <1>3, <1>7, <3>1
        <3>3. UNCHANGED <<closed, returned, dialogs>>
            BY <1>1, <1>7, <1>10, <3>1, <3>2
        <3> QED BY <1>10, <2>2, <3>2, <3>3 DEF Heard, liveRegion
    <2> QED BY <2>1, <2>2
<1> QED BY <1>5, <1>8, <1>9, <1>10 DEF Heard

LEMMA HeardByDraining == ASSUME Inv, Inv', Heard, drainOne PROVE Heard'
<1> DEFINE line == Head(queue)
<1>1. /\ said \in Seq(Lines) /\ queue \in Seq(Nat) /\ Len(said) \in Nat /\ Len(queue) \in Nat
      /\ queue # <<>> /\ closed \in Nat
    BY DEF Inv, Typed, Due, drainOne
<1>2. line = Done + 1 /\ line \in 1..Len(said) /\ Done \in Nat
    BY <1>1 DEF Inv, InOrder, Done
<1>3. /\ Len(said') = Len(said) /\ Len(queue') = Len(queue) - 1
      /\ \A i \in 1..Len(said) : i # line => said'[i] = said[i]
    BY <1>1, <1>2 DEF drainOne
<1>4. /\ said'[line].text = said[line].text /\ said'[line].closed = said[line].closed
      /\ said'[line].lost = (liveRegion \in returned)
    BY <1>1, <1>2 DEF drainOne, Lines
<1>5. Done' = Done + 1
    BY <1>1, <1>3 DEF Done
<1>6. /\ UNCHANGED <<dialogs, offer, closed>> /\ returned' = returned \ {liveRegion}
      /\ liveRegion' = liveRegion
    BY DEF drainOne, dialogVars, liveRegion
<1> HIDE DEF line
<1>7. \A i \in 1..Len(said) : said'[i].closed <= closed
    BY <1>3, <1>4 DEF Heard
<1>8. \A i \in 1..Done + 1 : said'[i].text = "connected" /\ said'[i].lost => said'[i].closed < closed
    <2> SUFFICES ASSUME NEW i \in 1..Done + 1, said'[i].text = "connected", said'[i].lost
                 PROVE  said'[i].closed < closed
        OBVIOUS
    <2>1. CASE i = line
        <3>1. said[line].closed <= closed /\ said[line].closed \in Nat
            <4>1. said[line] \in Lines
                BY <1>1, <1>2
            <4> QED BY <1>2, <4>1 DEF Heard, Lines
        <3>2. said[line].closed # closed
            BY <1>1, <1>2, <1>4, <2>1 DEF Heard
        <3> QED BY <1>1, <1>4, <2>1, <3>1, <3>2
    <2>2. CASE i # line
        BY <1>2, <1>3, <2>2 DEF Heard
    <2> QED BY <2>1, <2>2
<1> QED BY <1>3, <1>5, <1>6, <1>7, <1>8 DEF Heard

\* A dialog that opens was not open, so its region has not just returned.
LEMMA HeardByOpening ==
    ASSUME Inv, Heard, NEW dialog \in Dialogs, dialog \notin dialogs, Opens(dialog),
           dialog = Save \/ dialogs = {}, UNCHANGED <<queue, said, closed, returned>>,
           offer'.stage = "offered" \/ (dialog = New /\ UNCHANGED offer)
    PROVE  Heard'
<1>1. dialogs' = dialogs \cup {dialog} /\ dialogs \subseteq Dialogs /\ New # Save
    BY DEF Opens, Inv, Typed, New, Save
<1>2. Front(dialogs') = dialog
    BY <1>1, TheFrontIsTheLast DEF Dialogs
<1>3. dialog \notin returned
    BY DEF Heard
<1> QED BY <1>1, <1>2, <1>3 DEF Heard, Done, liveRegion

LEMMA ReturnedByClosing ==
    ASSUME Inv, Heard, NEW dialog \in Dialogs, Closes(dialog)
    PROVE  returned' \cap Dialogs \subseteq dialogs' /\ dialogs' \subseteq dialogs
<1>1. dialogs \ {dialog} \in SUBSET Dialogs /\ Document \notin Dialogs
    BY DEF Inv, Typed, Dialogs, Document, New, Save
<1> QED BY <1>1, TheFrontIsTheLast DEF Closes, Heard

LEMMA HeardByNext == Inv /\ Heard /\ [Next]_vars => Heard'
<1> SUFFICES ASSUME Inv, Heard, [Next]_vars PROVE Heard'
    OBVIOUS
<1>1. Inv' /\ dialogs \subseteq Dialogs /\ closed \in Nat
    BY HeldByNext DEF Inv, Typed
<1>2. CASE announce
    <2>1. <<"words">> \in Seq(Texts) /\ <<"words">> # <<>> /\ <<"words">>[1] # "connected"
        BY DEF Texts
    <2> QED BY <1>1, <1>2, <2>1, HeardByAnnouncing DEF announce, dialogVars, Heard
<1>3. CASE drainOne
    BY <1>1, <1>3, HeardByDraining
<1>4. CASE started
    <2> DEFINE texts == documentReturned_sayConnected
    <2>1. texts \in Seq(Texts) /\ texts # <<>> /\ texts[1] # "connected"
        BY DEF documentReturned_sayConnected, Texts
    <2>2. Closes(New) /\ closed' = closed + 1 /\ Announced(texts)
        BY <1>4 DEF started, Closes
    <2>3. Save \notin dialogs
        BY <1>4 DEF started, NoOffer, Heard
    <2>4. returned' \cap Dialogs \subseteq dialogs' /\ Save \notin dialogs'
        BY <2>2, <2>3, ReturnedByClosing DEF Dialogs
    <2> HIDE DEF texts
    <2> QED BY <1>1, <2>1, <2>2, <2>4, HeardByAnnouncing
<1>5. CASE saved
    <2> DEFINE texts == <<"marker", "words">>
    <2>1. texts \in Seq(Texts) /\ texts # <<>> /\ texts[1] # "connected"
        BY DEF Texts
    <2>2. Closes(Save) /\ closed' = closed + 1 /\ Announced(texts)
        BY <1>5 DEF saved, Closes
    <2>3. returned' \cap Dialogs \subseteq dialogs' /\ Save \notin dialogs'
        BY <2>2, ReturnedByClosing DEF Dialogs, Closes
    <2> HIDE DEF texts
    <2> QED BY <1>1, <2>1, <2>2, <2>3, HeardByAnnouncing
<1>6. CASE open_new
    BY <1>1, <1>6, HeardByOpening DEF open_new, Dialogs
<1>7. CASE leave
    <2> DEFINE dialog == Front(dialogs)
    <2>1. dialog \in Dialogs /\ Closes(dialog) /\ UNCHANGED <<queue, said, offer>>
        BY <1>1, <1>7, TheFrontIsTheLast DEF leave
    <2>2. closed' = closed + 1
        BY <2>1 DEF Closes
    <2> HIDE DEF dialog
    <2>3. returned' \cap Dialogs \subseteq dialogs' /\ (Save \in dialogs' => Save \in dialogs)
        BY <2>1, ReturnedByClosing
    <2>4. /\ said \in Seq(Lines) /\ Len(said) \in Nat /\ Len(queue) \in Nat /\ Done \in Int
          /\ Done <= Len(said) /\ (queue # <<>> => Done + 1 <= Len(said)) /\ Done >= 0
        BY DEF Inv, Typed, InOrder, Done
    <2>5. \A i \in 1..Len(said) : said[i].closed \in Nat /\ said[i].closed <= closed
        <3>1. \A i \in 1..Len(said) : said[i] \in Lines
            BY <2>4
        <3> QED BY <3>1 DEF Lines, Heard
    <2>6. \A i \in 1..Len(said) : said[i].closed < closed'
        BY <1>1, <2>2, <2>5
    <2>7. Done' = Done
        BY <2>1 DEF Done
    <2>8. \A i \in 1..Done : said[i].closed < closed'
        BY <2>4, <2>6
    <2>9. queue # <<>> => said[Done + 1].closed < closed'
        BY <2>4, <2>6
    <2>10. \A i \in 1..Len(said) : said[i].closed <= closed'
        BY <1>1, <2>2, <2>5
    <2>11. queue # <<>> => said[Done + 1].closed # closed'
        BY <1>1, <2>2, <2>4, <2>5
    <2> QED BY <2>1, <2>3, <2>7, <2>8, <2>10, <2>11 DEF Heard
<1>8. ASSUME offer.stage # "offered", NEW before, settle(before) PROVE Heard'
    <2>1. CASE SaidAndSpaced
        BY <1>1, <1>8, <2>1, HeardByOpening DEF settle, Heard, Dialogs
    <2>2. CASE ~SaidAndSpaced
        BY <1>8, <2>2 DEF settle, Heard, Done, liveRegion
    <2> QED BY <2>1, <2>2
<1>9. CASE offerToSave
    <2>1. CASE settle(Len(said))
        BY <1>8, <1>9, <2>1 DEF offerToSave, Asking
    <2>2. CASE UNCHANGED <<now, queue, dialogs, returned, said, closed>> /\ offer' = NoOffer
        BY <1>9, <2>2 DEF offerToSave, Asking, Heard, Done, liveRegion
    <2> QED BY <1>9, <2>1, <2>2 DEF offerToSave
<1>10. CASE settles
    BY <1>8, <1>10 DEF settles
<1>11. CASE (\E r \in Regions : clear(r)) \/ Tick \/ UNCHANGED vars
    <2>1. UNCHANGED <<queue, said, dialogs, offer, returned, closed>>
        BY <1>11 DEF clear, Tick, vars, dialogVars
    <2> QED BY <2>1 DEF Heard, Done, liveRegion
<1> QED BY <1>2, <1>3, <1>4, <1>5, <1>6, <1>7, <1>9, <1>10, <1>11 DEF Next

(***************************************************************************)
(* What tells of a connection is heard, whatever was queued before it,     *)
(* unless another dialog was closed before it was its turn.                *)
(***************************************************************************)
THEOREM TheConnectionIsHeard == Spec => []ConnectedIsHeard
<1>1. Init => Heard
    BY DEF Init, Heard, Done
<1>2. Inv /\ Heard => ConnectedIsHeard
    <2> SUFFICES ASSUME Inv, Heard, NEW i \in Drained, said[i].text = "connected", said[i].lost
                 PROVE  said[i].closed < closed
        BY DEF ConnectedIsHeard
    <2>1. DOMAIN said = 1..Len(said) /\ Len(said) \in Nat /\ Len(queue) \in Nat
        BY DEF Inv, Typed
    <2>2. i \in 1..Done
        BY <2>1 DEF Drained, Inv, InOrder, Done
    <2> QED BY <2>2 DEF Heard
<1> QED BY HeldAtFirst, HeldByNext, HeardByNext, <1>1, <1>2, PTL DEF Spec
=============================================================================
