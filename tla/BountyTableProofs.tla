------------------------- MODULE BountyTableProofs -------------------------
(***************************************************************************)
(* What the table of bounties tells of senders and targets, for every      *)
(* number of players, requests and refused queries: the cap, the cooldowns *)
(* and the shared progress hold although every request was prepared        *)
(* earlier, from other data, and a disconnect time is that of an absence.  *)
(***************************************************************************)
EXTENDS EscrowProofs

------------------------------------------------------------------------------
(* What a statement does to the rows that are there and the one it adds.   *)

Kin(old, new) ==
    /\ new.sender = old.sender /\ new.target = old.target
    /\ new.placed = old.placed /\ new.expires = old.expires
    /\ new.status = "active" => old.status = "active"
SamePace(old, new) == new.progress = old.progress /\ new.last = old.last
SameAbsence(old, new) == new.disconnected = old.disconnected
Unrefunded(old, new) == new.status = "disconnected" => old.status = "disconnected"

OldRowsStay == \A b \in DOMAIN rows : b \in DOMAIN rows' /\ Kin(rows[b], rows'[b])
PaceStays == \A b \in DOMAIN rows : SamePace(rows[b], rows'[b])
AbsencesStay == \A b \in DOMAIN rows : SameAbsence(rows[b], rows'[b])
NoneIsRefunded == \A b \in DOMAIN rows : Unrefunded(rows[b], rows'[b])

IsNew(row, sender, req) ==
    /\ row.sender = sender /\ row.target = req.target
    /\ row.placed = req.now /\ row.expires = req.now + Expiry
    /\ row.disconnected = 0
RowIsAdded(sender, req) ==
    LET n == Len(rows) + 1
    IN  DOMAIN rows' = 1..n /\ IsNew(rows'[n], sender, req)

LEMMA Unchanging ==
    ASSUME Typed, UNCHANGED rows
    PROVE  /\ OldRowsStay /\ PaceStays /\ AbsencesStay /\ NoneIsRefunded
           /\ DOMAIN rows' = DOMAIN rows
BY DEF OldRowsStay, PaceStays, AbsencesStay, NoneIsRefunded, Kin, SamePace, SameAbsence, Unrefunded

LEMMA Lengthened ==
    ASSUME Typed, NEW table \in Seq(Rows), DOMAIN table = DOMAIN rows, NEW row \in Rows,
           rows' = Append(table, row)
    PROVE  /\ Len(rows) \in Nat /\ DOMAIN rows = 1..Len(rows)
           /\ DOMAIN rows' = 1..(Len(rows) + 1) /\ rows'[Len(rows) + 1] = row
           /\ \A b \in DOMAIN rows : b \in DOMAIN rows' /\ rows'[b] = table[b]
<1>1. /\ Len(rows) \in Nat /\ DOMAIN rows = 1..Len(rows)
      /\ Len(table) \in Nat /\ DOMAIN table = 1..Len(table)
  BY LenProperties DEF Typed
<1>2. Len(table) = Len(rows)
  BY <1>1
<1>3. /\ rows' \in Seq(Rows) /\ Len(rows') = Len(table) + 1
      /\ \A i \in 1..Len(table) : rows'[i] = table[i]
      /\ rows'[Len(table) + 1] = row
  BY AppendProperties
<1>4. DOMAIN rows' = 1..(Len(table) + 1)
  BY <1>3, LenProperties
<1> QED
  BY <1>1, <1>2, <1>3, <1>4

LEMMA NewRowIsNew ==
    ASSUME NEW sender, NEW req, NEW n, NEW progress
    PROVE  /\ IsNew(NewRow(sender, req, n, progress), sender, req)
           /\ NewRow(sender, req, n, progress).progress = progress
           /\ NewRow(sender, req, n, progress).last = req.played
BY DEF IsNew, NewRow

(* A placement that was admitted: the row it adds and the stack it aligns. *)
Joined(req, progress) ==
    LET n == Len(rows) + 1
    IN  /\ rows'[n].progress = progress /\ rows'[n].last = req.played
        /\ \A b \in DOMAIN rows :
                IF b \in ActiveOn(req.target, req.now)
                THEN rows'[b].progress = progress /\ rows'[b].last = req.played
                ELSE SamePace(rows[b], rows'[b])

LEMMA PlaceEffect ==
    ASSUME BountiesAssumption, Typed, NEW req, NEW ids, WellFormed(req, ids),
           req.op = "place", ExecutePlace(req), ~UNCHANGED rows
    PROVE  /\ CanPlace(req) /\ OldRowsStay /\ AbsencesStay /\ NoneIsRefunded
           /\ RowIsAdded(req.sender, req)
           /\ \E progress : Joined(req, progress)
<1> DEFINE progress == MergedProgress(req.target, req.amount, req.now)
           table == AlignedStack(req, progress)
           row == NewRow(req.sender, req, req.amount, progress)
<1>1. CanPlace(req) /\ rows' = Append(table, row)
  BY DEF ExecutePlace, tables
<1>2. /\ req.sender \in Players /\ req.target \in Players
      /\ req.amount \in Nat \ {0} /\ req.now \in Nat /\ req.played \in Nat
  BY DEF WellFormed, BountiesAssumption
<1>3. progress \in Nat
  BY <1>2, MergedIsNumber
<1> HIDE DEF progress
<1>4. row \in Rows
  BY <1>2, <1>3, NewRowTyped DEF Senders
<1>5. /\ IsNew(row, req.sender, req) /\ row.progress = progress /\ row.last = req.played
  BY NewRowIsNew
<1>6. ASSUME NEW b \in DOMAIN rows
      PROVE  /\ rows[b] \in Rows
             /\ IF b \in ActiveOn(req.target, req.now)
                THEN table[b] = MeasuredRow(rows[b], progress, req.played)
                ELSE table[b] = rows[b]
  BY RowsAreFinite DEF Typed, AlignedStack, MeasuredRow
<1>7. table = [b \in DOMAIN rows |-> table[b]]
  BY DEF AlignedStack
<1> HIDE DEF table, row
<1>8. ASSUME NEW b \in DOMAIN rows
      PROVE  /\ table[b] \in Rows
             /\ Kin(rows[b], table[b]) /\ SameAbsence(rows[b], table[b])
             /\ Unrefunded(rows[b], table[b])
             /\ IF b \in ActiveOn(req.target, req.now)
                THEN table[b].progress = progress /\ table[b].last = req.played
                ELSE SamePace(rows[b], table[b])
  <2> DEFINE old == rows[b]
             new == MeasuredRow(old, progress, req.played)
  <2>1. old \in Rows
    BY <1>6
  <2> HIDE DEF old
  <2>2. /\ new \in Rows /\ Kin(old, new) /\ SameAbsence(old, new) /\ Unrefunded(old, new)
        /\ new.progress = progress /\ new.last = req.played
    <3>1. new \in Rows
      BY <1>2, <1>3, <2>1, MeasuredRowTyped
    <3>2. /\ new.progress = progress /\ new.last = req.played
          /\ new.sender = old.sender /\ new.target = old.target
          /\ new.placed = old.placed /\ new.expires = old.expires
          /\ new.status = old.status /\ new.disconnected = old.disconnected
      BY <2>1 DEF MeasuredRow, Rows
    <3> HIDE DEF new
    <3> QED
      BY <3>1, <3>2 DEF Kin, SameAbsence, Unrefunded
  <2>3. Kin(old, old) /\ SameAbsence(old, old) /\ SamePace(old, old) /\ Unrefunded(old, old)
    BY DEF Kin, SameAbsence, SamePace, Unrefunded
  <2> HIDE DEF new
  <2>4. IF b \in ActiveOn(req.target, req.now) THEN table[b] = new ELSE table[b] = old
    BY <1>6 DEF new, old
  <2> QED
    BY <2>1, <2>2, <2>3, <2>4 DEF old
<1>9. table \in Seq(Rows) /\ DOMAIN table = DOMAIN rows
  BY <1>7, <1>8, RewriteTyped DEF Typed
<1>10. /\ Len(rows) \in Nat /\ DOMAIN rows = 1..Len(rows)
       /\ DOMAIN rows' = 1..(Len(rows) + 1) /\ rows'[Len(rows) + 1] = row
       /\ \A b \in DOMAIN rows : b \in DOMAIN rows' /\ rows'[b] = table[b]
  BY <1>1, <1>4, <1>9, Lengthened
<1>11. OldRowsStay /\ AbsencesStay /\ NoneIsRefunded
  BY <1>8, <1>10 DEF OldRowsStay, AbsencesStay, NoneIsRefunded
<1>12. RowIsAdded(req.sender, req)
  BY <1>5, <1>10 DEF RowIsAdded
<1>13. Joined(req, progress)
  BY <1>5, <1>8, <1>10 DEF Joined
<1> QED
  BY <1>1, <1>11, <1>12, <1>13

LEMMA AutoEffect ==
    ASSUME BountiesAssumption, Typed, NEW req, NEW ids, WellFormed(req, ids),
           req.op = "auto", ExecuteAuto(req), ~UNCHANGED rows
    PROVE  /\ CanPlaceAutomatically(req)
           /\ OldRowsStay /\ PaceStays /\ AbsencesStay /\ NoneIsRefunded
           /\ RowIsAdded(System, req)
<1> DEFINE row == NewRow(System, req, AutoStake, 0)
<1>1. CanPlaceAutomatically(req) /\ rows' = Append(rows, row)
  BY DEF ExecuteAuto
<1>2. row \in Rows
  BY NewRowTyped DEF WellFormed, BountiesAssumption, Senders
<1>3. IsNew(row, System, req)
  BY NewRowIsNew
<1> HIDE DEF row
<1>4. /\ DOMAIN rows' = 1..(Len(rows) + 1) /\ rows'[Len(rows) + 1] = row
      /\ \A b \in DOMAIN rows : b \in DOMAIN rows' /\ rows'[b] = rows[b]
  BY <1>1, <1>2, Lengthened DEF Typed
<1>5. OldRowsStay /\ PaceStays /\ AbsencesStay /\ NoneIsRefunded
  BY <1>4 DEF OldRowsStay, PaceStays, AbsencesStay, NoneIsRefunded, Kin, SamePace, SameAbsence,
        Unrefunded
<1>6. RowIsAdded(System, req)
  BY <1>3, <1>4 DEF RowIsAdded
<1> QED
  BY <1>1, <1>5, <1>6

(* Growth, and the operations that settle without looking at the pace.     *)
LEMMA SettledRowIsKin ==
    ASSUME NEW row \in Rows, NEW outcome, outcome # "active", NEW t, NEW payee
    PROVE  /\ Kin(row, SettledRow(row, outcome, t, payee))
           /\ SamePace(row, SettledRow(row, outcome, t, payee))
           /\ SameAbsence(row, SettledRow(row, outcome, t, payee))
           /\ SettledRow(row, outcome, t, payee).status = outcome
<1> DEFINE new == SettledRow(row, outcome, t, payee)
<1>1. /\ new.sender = row.sender /\ new.target = row.target
      /\ new.placed = row.placed /\ new.expires = row.expires
      /\ new.progress = row.progress /\ new.last = row.last
      /\ new.disconnected = row.disconnected /\ new.status = outcome
  BY DEF SettledRow, Rows
<1> HIDE DEF new
<1>2. /\ Kin(row, new) /\ SamePace(row, new) /\ SameAbsence(row, new) /\ new.status = outcome
  BY <1>1 DEF Kin, SamePace, SameAbsence
<1> QED
  BY <1>2 DEF new

LEMMA ResolvedEffect ==
    ASSUME Typed, DOMAIN rows' = DOMAIN rows, NEW outcome, outcome # "active",
           \A b \in DOMAIN rows :
                \/ rows'[b] = rows[b]
                \/ \E t, payee : rows'[b] = SettledRow(rows[b], outcome, t, payee)
    PROVE  /\ OldRowsStay /\ PaceStays /\ AbsencesStay
           /\ outcome # "disconnected" => NoneIsRefunded
<1>1. ASSUME NEW b \in DOMAIN rows
      PROVE  /\ Kin(rows[b], rows'[b]) /\ SamePace(rows[b], rows'[b])
             /\ SameAbsence(rows[b], rows'[b])
             /\ outcome # "disconnected" => Unrefunded(rows[b], rows'[b])
  <2>1. rows[b] \in Rows
    BY RowsAreFinite DEF Typed
  <2>2. ASSUME NEW t, NEW payee, rows'[b] = SettledRow(rows[b], outcome, t, payee)
        PROVE  /\ Kin(rows[b], rows'[b]) /\ SamePace(rows[b], rows'[b])
               /\ SameAbsence(rows[b], rows'[b]) /\ rows'[b].status = outcome
    BY <2>1, <2>2, SettledRowIsKin
  <2>3. CASE rows'[b] = rows[b]
    BY <2>3 DEF Kin, SamePace, SameAbsence, Unrefunded
  <2>4. CASE \E t, payee : rows'[b] = SettledRow(rows[b], outcome, t, payee)
    BY <2>2, <2>4 DEF Unrefunded
  <2> QED
    BY <2>3, <2>4
<1> QED
  BY <1>1 DEF OldRowsStay, PaceStays, AbsencesStay, NoneIsRefunded

LEMMA ClaimEffect ==
    ASSUME Typed, NEW req, ExecuteClaim(req)
    PROVE  /\ OldRowsStay /\ PaceStays /\ AbsencesStay /\ NoneIsRefunded
           /\ DOMAIN rows' = DOMAIN rows
<1>1. rows' = [b \in DOMAIN rows |->
                IF b \in ActiveOn(req.victim, req.now)
                THEN SettledRow(rows[b], "claimed", req.token, req.attacker) ELSE rows[b]]
  BY DEF ExecuteClaim, Settle, Resolved, SettledRow
<1>2. /\ DOMAIN rows' = DOMAIN rows
      /\ \A b \in DOMAIN rows :
            \/ rows'[b] = rows[b]
            \/ \E t, payee : rows'[b] = SettledRow(rows[b], "claimed", t, payee)
  BY <1>1
<1>3. "claimed" # "active" /\ "claimed" # "disconnected"
  OBVIOUS
<1> QED
  BY <1>2, <1>3, ResolvedEffect

(* A refund settles those it chose and no others.                          *)
LEMMA ReturnEffect ==
    ASSUME Typed, NEW chosen, NEW outcome, outcome # "active", NEW t, Refund(chosen, outcome, t)
    PROVE  /\ OldRowsStay /\ PaceStays /\ AbsencesStay /\ DOMAIN rows' = DOMAIN rows
           /\ outcome # "disconnected" => NoneIsRefunded
           /\ \A b \in DOMAIN rows : rows'[b] = rows[b] \/ b \in chosen
<1>1. rows' = [b \in DOMAIN rows |->
                IF b \in chosen
                THEN SettledRow(rows[b], outcome, t, rows[b].sender) ELSE rows[b]]
  BY DEF Refund, Settle, Resolved, SettledRow
<1>2. /\ DOMAIN rows' = DOMAIN rows
      /\ \A b \in DOMAIN rows : rows'[b] = rows[b] \/ b \in chosen
      /\ \A b \in DOMAIN rows :
            \/ rows'[b] = rows[b]
            \/ \E s, payee : rows'[b] = SettledRow(rows[b], outcome, s, payee)
  BY <1>1
<1> QED
  BY <1>2, ResolvedEffect

LEMMA ExpireEffect ==
    ASSUME Typed, NEW req, ExecuteExpire(req)
    PROVE  /\ OldRowsStay /\ PaceStays /\ AbsencesStay /\ NoneIsRefunded
           /\ DOMAIN rows' = DOMAIN rows
<1> DEFINE chosen == {b \in DOMAIN rows : rows[b].status = "active" /\ rows[b].expires <= req.now}
<1>1. Refund(chosen, "expired", req.token)
  BY DEF ExecuteExpire
<1>2. "expired" # "active" /\ "expired" # "disconnected"
  OBVIOUS
<1> HIDE DEF chosen
<1> QED
  BY <1>1, <1>2, ReturnEffect

LEMMA RefundEffect ==
    ASSUME Typed, NEW req, ExecuteRefund(req)
    PROVE  /\ OldRowsStay /\ PaceStays /\ AbsencesStay /\ DOMAIN rows' = DOMAIN rows
           /\ \A b \in DOMAIN rows : rows'[b] = rows[b] \/ IsOverdue(b, req.cutoff)
<1>1. Refund(Refundable(req), "disconnected", req.token) /\ "disconnected" # "active"
  BY DEF ExecuteRefund
<1>2. /\ OldRowsStay /\ PaceStays /\ AbsencesStay /\ DOMAIN rows' = DOMAIN rows
      /\ \A b \in DOMAIN rows : rows'[b] = rows[b] \/ b \in Refundable(req)
  BY <1>1, ReturnEffect
<1> QED
  BY <1>2 DEF Refundable

LEMMA GrowEffect ==
    ASSUME Typed, NEW req, ExecuteGrow(req)
    PROVE  /\ OldRowsStay /\ PaceStays /\ AbsencesStay /\ NoneIsRefunded
           /\ DOMAIN rows' = DOMAIN rows
<1>1. \A b \in DOMAIN rows : rows[b] \in Rows
  BY RowsAreFinite DEF Typed
<1>2. DOMAIN rows' = DOMAIN rows
  BY DEF ExecuteGrow
<1>3. ASSUME NEW b \in DOMAIN rows
      PROVE  /\ rows'[b].sender = rows[b].sender /\ rows'[b].target = rows[b].target
             /\ rows'[b].placed = rows[b].placed /\ rows'[b].expires = rows[b].expires
             /\ rows'[b].status = rows[b].status
             /\ rows'[b].progress = rows[b].progress /\ rows'[b].last = rows[b].last
             /\ rows'[b].disconnected = rows[b].disconnected
  <2>1. rows'[b] = rows[b]
        \/ \E bonus : rows'[b] = [rows[b] EXCEPT !.bonus = bonus]
    BY DEF ExecuteGrow
  <2> QED
    BY <1>1, <2>1 DEF Rows
<1> QED
  BY <1>2, <1>3 DEF OldRowsStay, PaceStays, AbsencesStay, NoneIsRefunded, Kin, SamePace,
        SameAbsence, Unrefunded

LEMMA MarkEffect ==
    ASSUME Typed, NEW req, ExecuteMark(req)
    PROVE  /\ OldRowsStay /\ PaceStays /\ NoneIsRefunded /\ DOMAIN rows' = DOMAIN rows
           /\ \A b \in DOMAIN rows : rows'[b].disconnected =
                IF b \in ActiveOn(req.player, req.now) /\ rows[b].disconnected = 0
                THEN req.now ELSE rows[b].disconnected
<1>1. \A b \in DOMAIN rows : rows[b] \in Rows
  BY RowsAreFinite DEF Typed
<1>2. DOMAIN rows' = DOMAIN rows
  BY DEF ExecuteMark
<1>3. ASSUME NEW b \in DOMAIN rows
      PROVE  /\ rows'[b].sender = rows[b].sender /\ rows'[b].target = rows[b].target
             /\ rows'[b].placed = rows[b].placed /\ rows'[b].expires = rows[b].expires
             /\ rows'[b].status = rows[b].status
             /\ rows'[b].progress = rows[b].progress /\ rows'[b].last = rows[b].last
             /\ rows'[b].disconnected =
                IF b \in ActiveOn(req.player, req.now) /\ rows[b].disconnected = 0
                THEN req.now ELSE rows[b].disconnected
  BY <1>1 DEF ExecuteMark, Rows
<1> QED
  BY <1>2, <1>3 DEF OldRowsStay, PaceStays, NoneIsRefunded, Kin, SamePace, Unrefunded

LEMMA ClearEffect ==
    ASSUME Typed, NEW req, ExecuteClear(req)
    PROVE  /\ OldRowsStay /\ PaceStays /\ NoneIsRefunded /\ DOMAIN rows' = DOMAIN rows
           /\ \A b \in DOMAIN rows : rows'[b].disconnected =
                IF rows[b].status = "active" /\ rows[b].target = req.player
                THEN 0 ELSE rows[b].disconnected
<1>1. \A b \in DOMAIN rows : rows[b] \in Rows
  BY RowsAreFinite DEF Typed
<1>2. DOMAIN rows' = DOMAIN rows
  BY DEF ExecuteClear
<1>3. ASSUME NEW b \in DOMAIN rows
      PROVE  /\ rows'[b].sender = rows[b].sender /\ rows'[b].target = rows[b].target
             /\ rows'[b].placed = rows[b].placed /\ rows'[b].expires = rows[b].expires
             /\ rows'[b].status = rows[b].status
             /\ rows'[b].progress = rows[b].progress /\ rows'[b].last = rows[b].last
             /\ rows'[b].disconnected =
                IF rows[b].status = "active" /\ rows[b].target = req.player
                THEN 0 ELSE rows[b].disconnected
  BY <1>1 DEF ExecuteClear, Rows
<1> QED
  BY <1>2, <1>3 DEF OldRowsStay, PaceStays, NoneIsRefunded, Kin, SamePace, Unrefunded

(* The progress pass: a row that stays active was measured or left alone.  *)
LEMMA ProgressEffect ==
    ASSUME Typed, NEW req, ExecuteProgress(req)
    PROVE  /\ OldRowsStay /\ AbsencesStay /\ NoneIsRefunded /\ DOMAIN rows' = DOMAIN rows
           /\ \A b \in DOMAIN rows :
                IF b \in Measured(req)
                THEN rows'[b].progress = Progressed(b, req)
                        /\ rows'[b].last = req.current[rows[b].target]
                ELSE SamePace(rows[b], rows'[b])
<1> DEFINE measured(b) == IF b \in Measured(req)
                          THEN MeasuredRow(rows[b], Progressed(b, req),
                                           req.current[rows[b].target])
                          ELSE rows[b]
<1>1. /\ DOMAIN rows' = DOMAIN rows
      /\ \A b \in DOMAIN rows : rows'[b] =
            IF b \in Survived(req) THEN SettledRow(measured(b), "survived", req.token, rows[b].target)
                            ELSE measured(b)
  BY DEF ExecuteProgress, SettledRow, MeasuredRow
<1>2. ASSUME NEW b \in DOMAIN rows
      PROVE  /\ Kin(rows[b], rows'[b]) /\ SameAbsence(rows[b], rows'[b])
             /\ Unrefunded(rows[b], rows'[b])
             /\ IF b \in Measured(req)
                THEN rows'[b].progress = Progressed(b, req)
                        /\ rows'[b].last = req.current[rows[b].target]
                ELSE SamePace(rows[b], rows'[b])
  <2> DEFINE old == rows[b]
             new == measured(b)
  <2>1. DOMAIN old = {"sender", "target", "amount", "bonus", "placed", "expires", "progress",
                      "last", "disconnected", "status", "token", "payee"}
    BY RowsAreFinite DEF Typed, Rows
  <2> HIDE DEF old
  <2>2. /\ DOMAIN new = DOMAIN old
        /\ new.sender = old.sender /\ new.target = old.target
        /\ new.placed = old.placed /\ new.expires = old.expires
        /\ new.status = old.status /\ new.disconnected = old.disconnected
        /\ IF b \in Measured(req)
           THEN new.progress = Progressed(b, req) /\ new.last = req.current[rows[b].target]
           ELSE new.progress = old.progress /\ new.last = old.last
    BY <2>1 DEF MeasuredRow, old
  <2> DEFINE last == SettledRow(new, "survived", req.token, rows[b].target)
  <2> HIDE DEF new
  <2>3. /\ last.sender = new.sender /\ last.target = new.target
        /\ last.placed = new.placed /\ last.expires = new.expires
        /\ last.status = "survived" /\ last.disconnected = new.disconnected
        /\ last.progress = new.progress /\ last.last = new.last
    BY <2>1, <2>2 DEF SettledRow
  <2> HIDE DEF last
  <2>4. rows'[b] = last \/ rows'[b] = new
    BY <1>1 DEF last, new
  <2>5. CASE rows'[b] = last
    BY <2>2, <2>3, <2>5 DEF Kin, SameAbsence, SamePace, Unrefunded, old
  <2>6. CASE rows'[b] = new
    BY <2>2, <2>6 DEF Kin, SameAbsence, SamePace, Unrefunded, old
  <2> QED
    BY <2>4, <2>5, <2>6
<1> QED
  BY <1>1, <1>2 DEF OldRowsStay, AbsencesStay, NoneIsRefunded

------------------------------------------------------------------------------
(* What the queue says of one player's absences.  The worker is behind the *)
(* main thread: it will see the player leave and return, one request after *)
(* the other, until it has come to what is so now.                         *)

Gone(p) == IF seat[p] = "away" THEN leftAt[p] ELSE 0

StepFor(p, req, old, new) ==
    /\ req.op = "mark" /\ req.player = p => old = 0 /\ new = req.now /\ new > 0
    /\ req.op = "clear" /\ req.player = p => new = 0
    /\ ~(req.op \in {"mark", "clear"} /\ req.player = p) => new = old
    /\ req.op \in {"place", "auto"} /\ req.target = p => old = 0
    /\ req.op = "refund" => req.left[p] = old

Tale(p, q, g) == \A i \in 1..Len(q) : StepFor(p, q[i], g[i - 1], g[i])
Tells(p, q, from, to) ==
    \E g \in [0..Len(q) -> Nat] : g[0] = from /\ g[Len(q)] = to /\ Tale(p, q, g)

LEMMA TellsStill ==
    ASSUME NEW p, NEW q, IsSeq(q), NEW n \in Nat,
           \A i \in DOMAIN q : StepFor(p, q[i], n, n)
    PROVE  Tells(p, q, n, n)
<1> DEFINE g == [i \in 0..Len(q) |-> n]
<1>1. Len(q) \in Nat /\ DOMAIN q = 1..Len(q)
  BY SeqOfItself
<1>2. \A i \in 0..Len(q) : g[i] = n
  OBVIOUS
<1>3. g \in [0..Len(q) -> Nat] /\ g[0] = n /\ g[Len(q)] = n
  BY <1>1
<1> HIDE DEF g
<1>4. Tale(p, q, g)
  <2>1. ASSUME NEW i \in 1..Len(q)
        PROVE  StepFor(p, q[i], g[i - 1], g[i])
    <3>1. g[i - 1] = n /\ g[i] = n
      BY <1>1, <1>2
    <3> QED
      BY <1>1, <3>1
  <2> QED
    BY <2>1 DEF Tale
<1> QED
  BY <1>3, <1>4 DEF Tells

LEMMA TellsOne ==
    ASSUME NEW p, NEW req, NEW m \in Nat, NEW n \in Nat, StepFor(p, req, m, n)
    PROVE  Tells(p, <<req>>, m, n)
<1> DEFINE g == [i \in 0..1 |-> IF i = 0 THEN m ELSE n]
<1>1. Len(<<req>>) = 1 /\ <<req>>[1] = req
  OBVIOUS
<1>2. g \in [0..1 -> Nat] /\ g[0] = m /\ g[1] = n
  OBVIOUS
<1> HIDE DEF g
<1>3. Tale(p, <<req>>, g)
  <2>1. ASSUME NEW i \in 1..1
        PROVE  StepFor(p, <<req>>[i], g[i - 1], g[i])
    <3>1. i = 1 /\ i - 1 = 0
      OBVIOUS
    <3> QED
      BY <1>1, <1>2, <3>1
  <2> QED
    BY <1>1, <2>1 DEF Tale
<1> QED
  BY <1>1, <1>2, <1>3 DEF Tells

LEMMA TellsBoth ==
    ASSUME NEW p, NEW q, IsSeq(q), NEW r, IsSeq(r), NEW a, NEW b, NEW c,
           Tells(p, q, a, b), Tells(p, r, b, c)
    PROVE  Tells(p, q \o r, a, c)
<1>1. PICK g \in [0..Len(q) -> Nat] : g[0] = a /\ g[Len(q)] = b /\ Tale(p, q, g)
  BY DEF Tells
<1>2. PICK h \in [0..Len(r) -> Nat] : h[0] = b /\ h[Len(r)] = c /\ Tale(p, r, h)
  BY DEF Tells
<1>3. /\ q \in Seq({q[i] : i \in DOMAIN q}) /\ r \in Seq({r[i] : i \in DOMAIN r})
      /\ Len(q) \in Nat /\ DOMAIN q = 1..Len(q) /\ Len(r) \in Nat /\ DOMAIN r = 1..Len(r)
  BY SeqOfItself
<1>4. /\ Len(q \o r) = Len(q) + Len(r)
      /\ \A i \in 1..Len(q) : (q \o r)[i] = q[i]
      /\ \A i \in 1..Len(r) : (q \o r)[Len(q) + i] = r[i]
  <2> DEFINE S == {q[i] : i \in DOMAIN q} \union {r[i] : i \in DOMAIN r}
  <2>1. q \in Seq(S) /\ r \in Seq(S)
    <3>1. \A i \in 1..Len(q) : q[i] \in S
      BY <1>3
    <3>2. \A i \in 1..Len(r) : r[i] \in S
      BY <1>3
    <3> HIDE DEF S
    <3>3. q = [i \in 1..Len(q) |-> q[i]] /\ r = [i \in 1..Len(r) |-> r[i]]
      BY <1>3
    <3> QED
      BY <1>3, <3>1, <3>2, <3>3, SeqDef
  <2> HIDE DEF S
  <2> QED
    BY <2>1, ConcatProperties
<1> DEFINE m == Len(q)
           n == Len(r)
           f == [i \in 0..(m + n) |-> IF i <= m THEN g[i] ELSE h[i - m]]
<1>5. f \in [0..(m + n) -> Nat]
  BY <1>1, <1>2, <1>3
<1>6. /\ \A i \in 0..m : f[i] = g[i]
      /\ \A i \in 0..n : f[m + i] = h[i]
  <2>1. ASSUME NEW i \in 0..m
        PROVE  f[i] = g[i]
    BY <1>3
  <2>2. ASSUME NEW i \in 0..n
        PROVE  f[m + i] = h[i]
    <3>1. CASE i = 0
      BY <1>1, <1>2, <1>3, <3>1
    <3>2. CASE i # 0
      <4>1. m + i \in 0..(m + n) /\ ~(m + i <= m) /\ (m + i) - m = i
        BY <1>3, <3>2
      <4> QED
        BY <4>1
    <3> QED
      BY <3>1, <3>2
  <2> QED
    BY <2>1, <2>2
<1> HIDE DEF f
<1>7. Tale(p, q \o r, f)
  <2>1. ASSUME NEW i \in 1..(m + n)
        PROVE  StepFor(p, (q \o r)[i], f[i - 1], f[i])
    <3>1. CASE i \in 1..m
      <4>1. f[i] = g[i] /\ f[i - 1] = g[i - 1] /\ (q \o r)[i] = q[i]
        BY <1>3, <1>4, <1>6, <3>1
      <4> QED
        BY <1>1, <3>1, <4>1 DEF Tale
    <3>2. CASE i \notin 1..m
      <4> DEFINE k == i - m
      <4>1. k \in 1..n /\ k \in 0..n /\ k - 1 \in 0..n /\ i = m + k /\ i - 1 = m + (k - 1)
        BY <1>3, <3>2
      <4> HIDE DEF k
      <4>2. f[m + k] = h[k] /\ f[m + (k - 1)] = h[k - 1] /\ (q \o r)[m + k] = r[k]
        BY <1>4, <1>6, <4>1
      <4>3. StepFor(p, r[k], h[k - 1], h[k])
        BY <1>2, <4>1 DEF Tale
      <4> QED
        BY <4>1, <4>2, <4>3
    <3> QED
      BY <3>1, <3>2
  <2> QED
    BY <1>4, <2>1 DEF Tale
<1>8. f[0] = a /\ f[m + n] = c
  BY <1>1, <1>2, <1>3, <1>6
<1> QED
  BY <1>4, <1>5, <1>7, <1>8 DEF Tells

LEMMA TellsFirst ==
    ASSUME NEW p, NEW q, IsSeq(q), q # << >>, NEW a, NEW c, Tells(p, q, a, c)
    PROVE  \E b \in Nat : /\ a \in Nat /\ StepFor(p, Head(q), a, b)
                          /\ Tells(p, Tail(q), b, c)
<1>1. PICK g \in [0..Len(q) -> Nat] : g[0] = a /\ g[Len(q)] = c /\ Tale(p, q, g)
  BY DEF Tells
<1>2. /\ q \in Seq({q[i] : i \in DOMAIN q})
      /\ Len(q) \in Nat /\ DOMAIN q = 1..Len(q)
  BY SeqOfItself
<1>3. Len(q) \in Nat \ {0}
  BY <1>2, EmptySeq
<1>4. /\ Head(q) = q[1] /\ Len(Tail(q)) = Len(q) - 1
      /\ \A i \in 1..(Len(q) - 1) : Tail(q)[i] = q[i + 1]
  BY <1>2, HeadTailProperties
<1> DEFINE n == Len(q) - 1
           h == [i \in 0..n |-> g[i + 1]]
<1>5. n \in Nat /\ h \in [0..n -> Nat] /\ h[0] = g[1] /\ h[n] = c
  BY <1>1, <1>3
<1>6. \A i \in 0..n : h[i] = g[i + 1]
  OBVIOUS
<1> HIDE DEF h
<1>7. Tale(p, Tail(q), h)
  <2>1. ASSUME NEW i \in 1..n
        PROVE  StepFor(p, Tail(q)[i], h[i - 1], h[i])
    <3>1. h[i] = g[i + 1] /\ h[i - 1] = g[i] /\ Tail(q)[i] = q[i + 1]
      BY <1>3, <1>4, <1>6
    <3>2. i + 1 \in 1..Len(q) /\ (i + 1) - 1 = i
      BY <1>3
    <3>3. StepFor(p, q[i + 1], g[(i + 1) - 1], g[i + 1])
      BY <1>1, <3>2 DEF Tale
    <3> QED
      BY <3>1, <3>2, <3>3
  <2> QED
    BY <1>4, <2>1 DEF Tale
<1>8. StepFor(p, q[1], g[0], g[1])
  <2>1. 1 \in 1..Len(q) /\ 1 - 1 = 0
    BY <1>3
  <2> QED
    BY <1>1, <2>1 DEF Tale
<1>9. Tells(p, Tail(q), g[1], c)
  BY <1>4, <1>5, <1>7 DEF Tells
<1>10. g[1] \in Nat /\ a \in Nat
  BY <1>1, <1>3
<1> QED
  BY <1>1, <1>4, <1>8, <1>9, <1>10

------------------------------------------------------------------------------
(* The times the requests were prepared at.                                *)

Dated == {"place", "auto", "mark", "progress"}
Ordered(q, t) ==
    /\ \A i \in DOMAIN q : q[i].op \in Dated => q[i].now \in Nat /\ q[i].now <= t
    /\ \A i, j \in DOMAIN q :
            i < j /\ q[i].op \in Dated /\ q[j].op \in Dated => q[i].now <= q[j].now

(* What one activity of the main thread asks for, while nobody comes or    *)
(* goes: it is of this moment and knows who is there.                      *)
Timely(req) ==
    /\ req.op \in Dated => req.now = clock
    /\ \A p \in Players : StepFor(p, req, Gone(p), Gone(p))
Still(q) == IsSeq(q) /\ \A i \in DOMAIN q : Timely(q[i])

(* What an action of the main thread does to all this.                     *)
News(q) ==
    /\ IsSeq(q) /\ Ask(q)
    /\ \A i \in DOMAIN q : q[i].op \in Dated => q[i].now = clock
    /\ \A p \in Players : Tells(p, q, Gone(p), Gone(p)')
LeftOnTime == \A p \in Players : seat[p] = "away" => leftAt[p] > 0
Reported ==
    /\ UNCHANGED rows /\ UNCHANGED failures
    /\ clock' \in Nat /\ clock <= clock'
    /\ LeftOnTime => LeftOnTime'
    /\ \/ UNCHANGED queue /\ \A p \in Players : Gone(p)' = Gone(p)
       \/ \E q : News(q)

LEMMA NoneIsStill == Still(<< >>)
BY NoneIsSeq DEF Still

LEMMA OneIsStill ==
    ASSUME NEW req, Timely(req)
    PROVE  Still(<<req>>)
BY OneIsSeq DEF Still

LEMMA BothAreStill ==
    ASSUME NEW q, Still(q), NEW r, Still(r)
    PROVE  Still(q \o r)
<1>1. IsSeq(q) /\ IsSeq(r)
  BY DEF Still
<1>2. IsSeq(q \o r)
  BY <1>1, ConcatIsSeq
<1>3. ASSUME NEW i \in DOMAIN (q \o r)
      PROVE  Timely((q \o r)[i])
  <2>1. \/ i \in DOMAIN q /\ (q \o r)[i] = q[i]
        \/ i - Len(q) \in DOMAIN r /\ (q \o r)[i] = r[i - Len(q)]
    BY <1>1, ConcatIsSeq
  <2> QED
    BY <2>1 DEF Still
<1> QED
  BY <1>2, <1>3 DEF Still

LEMMA GoneTyped ==
    ASSUME TypeOK, NEW p \in Players
    PROVE  Gone(p) \in Nat
BY DEF TypeOK, Gone

LEMMA StillIsNews ==
    ASSUME TypeOK, NEW q, Still(q), Ask(q), UNCHANGED <<seat, leftAt>>
    PROVE  News(q)
<1>1. ASSUME NEW p \in Players
      PROVE  Tells(p, q, Gone(p), Gone(p)')
  <2>1. Gone(p) \in Nat /\ Gone(p)' = Gone(p)
    BY GoneTyped DEF Gone
  <2>2. IsSeq(q) /\ \A i \in DOMAIN q : StepFor(p, q[i], Gone(p), Gone(p))
    BY DEF Still, Timely
  <2> QED
    BY <2>1, <2>2, TellsStill
<1> QED
  BY <1>1 DEF News, Still, Timely

(* Nobody comes or goes.                                                   *)
LEMMA NobodyMoves ==
    ASSUME BountiesAssumption, TypeOK, UNCHANGED <<clock, seat, leftAt, rows, failures>>,
           UNCHANGED queue \/ \E q : Still(q) /\ Ask(q)
    PROVE  Reported
<1>1. UNCHANGED <<clock, seat, leftAt>> /\ UNCHANGED rows /\ UNCHANGED failures
  OBVIOUS
<1>2. clock \in Nat
  BY DEF TypeOK, BountiesAssumption
<1>3. (LeftOnTime => LeftOnTime') /\ \A p \in Players : Gone(p)' = Gone(p)
  BY <1>1 DEF LeftOnTime, Gone
<1>4. UNCHANGED queue \/ \E q : News(q)
  BY <1>1, StillIsNews
<1> QED
  BY <1>1, <1>2, <1>3, <1>4 DEF Reported

LEMMA AuthorizedReports ==
    ASSUME BountiesAssumption, TypeOK, NEW p \in Players, OnClientAuthorized(p)
    PROVE  Reported
<1> DEFINE req == [op |-> "clear", player |-> p]
<1>1. /\ seat' = [seat EXCEPT ![p] = "authorized"] /\ UNCHANGED <<clock, leftAt, rows, failures>>
      /\ Ask(<<req>>)
  BY DEF OnClientAuthorized, tables
<1>2. /\ Gone(p)' = 0
      /\ \A o \in Players : o # p => Gone(o)' = Gone(o)
      /\ LeftOnTime => LeftOnTime'
  BY <1>1 DEF TypeOK, Gone, LeftOnTime
<1>3. ASSUME NEW o \in Players
      PROVE  /\ StepFor(o, req, Gone(o), Gone(o)')
             /\ Gone(o) \in Nat /\ Gone(o)' \in Nat
  <2>1. Gone(o) \in Nat
    BY GoneTyped
  <2>2. CASE o = p
    BY <1>2, <2>1, <2>2 DEF StepFor
  <2>3. CASE o # p
    <3>1. Gone(o)' = Gone(o)
      BY <1>2, <2>3
    <3> QED
      BY <2>1, <2>3, <3>1 DEF StepFor
  <2> QED
    BY <2>2, <2>3
<1>4. req.op \notin Dated
  BY DEF Dated
<1> HIDE DEF req
<1>5. \A o \in Players : Tells(o, <<req>>, Gone(o), Gone(o)')
  BY <1>3, TellsOne
<1>6. News(<<req>>)
  BY <1>1, <1>4, <1>5, OneIsSeq DEF News
<1>7. clock' \in Nat /\ clock <= clock'
  BY <1>1 DEF TypeOK, BountiesAssumption
<1> QED
  BY <1>1, <1>2, <1>6, <1>7 DEF Reported

LEMMA DisconnectReports ==
    ASSUME BountiesAssumption, TypeOK, NEW p \in Players, OnClientDisconnect(p)
    PROVE  Reported
<1> DEFINE req == [op |-> "mark", player |-> p, now |-> clock]
<1>1. /\ seat' = [seat EXCEPT ![p] = "away"] /\ leftAt' = [leftAt EXCEPT ![p] = clock]
      /\ seat[p] # "away" /\ UNCHANGED <<clock, rows, failures>> /\ Ask(<<req>>)
  BY DEF OnClientDisconnect, tables
<1>2. clock \in Nat /\ clock > 0
  BY DEF TypeOK, BountiesAssumption
<1>3. /\ Gone(p) = 0 /\ Gone(p)' = clock
      /\ \A o \in Players : o # p => Gone(o)' = Gone(o)
      /\ LeftOnTime => LeftOnTime'
  BY <1>1, <1>2 DEF TypeOK, Gone, LeftOnTime
<1>4. ASSUME NEW o \in Players
      PROVE  /\ StepFor(o, req, Gone(o), Gone(o)')
             /\ Gone(o) \in Nat /\ Gone(o)' \in Nat
  <2>1. Gone(o) \in Nat
    BY GoneTyped
  <2>2. CASE o = p
    BY <1>2, <1>3, <2>1, <2>2 DEF StepFor
  <2>3. CASE o # p
    <3>1. Gone(o)' = Gone(o)
      BY <1>3, <2>3
    <3> QED
      BY <2>1, <2>3, <3>1 DEF StepFor
  <2> QED
    BY <2>2, <2>3
<1>5. req.now = clock
  OBVIOUS
<1> HIDE DEF req
<1>6. \A o \in Players : Tells(o, <<req>>, Gone(o), Gone(o)')
  BY <1>4, TellsOne
<1>7. News(<<req>>)
  BY <1>1, <1>5, <1>6, OneIsSeq DEF News
<1>8. clock' \in Nat /\ clock <= clock'
  BY <1>1, <1>2
<1> QED
  BY <1>1, <1>3, <1>7, <1>8 DEF Reported

LEMMA PlayingReports ==
    ASSUME BountiesAssumption, TypeOK, NEW p \in Players, OnClientPutInServer(p) \/ PlayOn(p)
    PROVE  Reported
<1>1. CASE OnClientPutInServer(p)
  <2>1. /\ seat' = [seat EXCEPT ![p] = "playing"] /\ seat[p] # "away"
        /\ UNCHANGED <<clock, leftAt, rows, failures, queue>>
    BY <1>1 DEF OnClientPutInServer, tables, bounds
  <2>2. (LeftOnTime => LeftOnTime') /\ \A o \in Players : Gone(o)' = Gone(o)
    BY <2>1 DEF TypeOK, LeftOnTime, Gone
  <2>3. clock' \in Nat /\ clock <= clock'
    BY <2>1 DEF TypeOK, BountiesAssumption
  <2> QED
    BY <2>1, <2>2, <2>3 DEF Reported
<1>2. CASE PlayOn(p)
  BY <1>2, NobodyMoves DEF PlayOn, tables, bounds
<1> QED
  BY <1>1, <1>2

LEMMA TickReports ==
    ASSUME BountiesAssumption, TypeOK, Tick
    PROVE  Reported
<1>1. /\ clock' = clock + 1 /\ UNCHANGED <<seat, leftAt, rows, failures, queue>>
  BY DEF Tick, tables, bounds
<1>2. clock \in Nat
  BY DEF TypeOK, BountiesAssumption
<1>3. (LeftOnTime => LeftOnTime') /\ \A o \in Players : Gone(o)' = Gone(o)
  BY <1>1 DEF LeftOnTime, Gone
<1> QED
  BY <1>1, <1>2, <1>3 DEF Reported

LEMMA PlacementReports ==
    ASSUME BountiesAssumption, TypeOK, NEW s, NEW p, NEW n, QueueBountyPlacement(s, p, n)
    PROVE  Reported
<1> DEFINE req == [op |-> "place", sender |-> s, target |-> p, amount |-> n,
                   now |-> clock, played |-> played[p]]
<1>1. /\ Ask(<<req>>) /\ Playing(p)
      /\ UNCHANGED <<clock, seat, leftAt, rows, failures>>
  BY DEF QueueBountyPlacement, world, tables
<1>2. Timely(req)
  <2>1. Gone(p) = 0
    BY <1>1 DEF Gone, Playing
  <2> QED
    BY <2>1 DEF Timely, StepFor
<1> HIDE DEF req
<1> QED
  BY <1>1, <1>2, OneIsStill, NobodyMoves

LEMMA DeathReports ==
    ASSUME BountiesAssumption, TypeOK, NEW a, NEW v, NEW growing, IsSeq(growing), NEW dominated,
           Event_BountyPlayerDeath(a, v, growing, dominated)
    PROVE  Reported
<1> DEFINE grow == [i \in DOMAIN growing |->
                        [op |-> "grow", player |-> growing[i], now |-> clock]]
           claim(t) == [op |-> "claim", attacker |-> a, victim |-> v, now |-> clock, token |-> t]
<1>1. Still(grow)
  <2>1. PICK n \in Nat : growing = [i \in 1..n |-> growing[i]]
    BY DEF IsSeq
  <2>2. DOMAIN growing = 1..n
    BY <2>1
  <2>3. IsSeq(grow)
    BY <2>2 DEF IsSeq
  <2>4. ASSUME NEW i \in DOMAIN grow
        PROVE  Timely(grow[i])
    BY DEF Timely, Dated, StepFor
  <2> HIDE DEF grow
  <2> QED
    BY <2>3, <2>4 DEF Still
<1>2. ASSUME NEW t
      PROVE  Still(<<claim(t)>>)
  <2>1. Timely(claim(t))
    BY DEF Timely, Dated, StepFor
  <2> HIDE DEF claim
  <2> QED
    BY <2>1, OneIsStill
<1>3. \/ Ask(grow)
      \/ \E t \in Tokens : FreshToken(t) /\ Ask(grow \o <<claim(t)>>)
  BY DEF Event_BountyPlayerDeath
<1> HIDE DEF grow, claim
<1>4. \E q : Still(q) /\ Ask(q)
  BY <1>1, <1>2, <1>3, BothAreStill
<1>5. UNCHANGED <<clock, seat, leftAt, rows, failures>>
  BY DEF Event_BountyPlayerDeath, world, tables
<1> QED
  BY <1>4, <1>5, NobodyMoves

LEMMA MaintenanceReports ==
    ASSUME BountiesAssumption, TypeOK, Timer_BountyMaintenance \/ Bounties_OnMapStart
    PROVE  Reported
<1>1. ASSUME Maintain
      PROVE  \E q : Still(q) /\ Ask(q)
  <2> DEFINE expire(t) == [op |-> "expire", now |-> clock, token |-> t]
             targets == [op |-> "targets", now |-> clock]
             first(t) == IF expiryPending THEN << >> ELSE <<expire(t)>>
             second == IF progressPending THEN << >> ELSE <<targets>>
  <2>1. PICK t \in Tokens : FreshToken(t) /\ Ask(first(t) \o second)
    BY <1>1 DEF Maintain
  <2>2. Timely(expire(t)) /\ Timely(targets)
    BY DEF Timely, Dated, StepFor
  <2> HIDE DEF expire, targets
  <2>3. Still(first(t)) /\ Still(second)
    BY <2>2, OneIsStill, NoneIsStill
  <2> HIDE DEF first, second
  <2> QED
    BY <2>1, <2>3, BothAreStill
<1>2. Maintain \/ UNCHANGED queue
  BY DEF Timer_BountyMaintenance, Bounties_OnMapStart
<1>3. UNCHANGED <<clock, seat, leftAt, rows, failures>>
  BY DEF Timer_BountyMaintenance, Bounties_OnMapStart, world, tables, bounds
<1> QED
  BY <1>1, <1>2, <1>3, NobodyMoves

LEMMA RoundReports ==
    ASSUME BountiesAssumption, TypeOK, Event_BountyRoundStart
    PROVE  Reported
<1> DEFINE select == [op |-> "overdue", now |-> clock, cutoff |-> clock - Grace]
           first == IF refundPending THEN << >> ELSE <<select>>
           candidate(p) == [op |-> "candidate", player |-> p, now |-> clock]
<1>1. Timely(select) /\ \A p \in Players : Timely(candidate(p))
  BY DEF Timely, Dated, StepFor
<1>2. Ask(first) \/ \E p \in Players : Ask(first \o <<candidate(p)>>)
  BY DEF Event_BountyRoundStart, BountiesAssumption
<1> HIDE DEF select, candidate
<1>3. Still(first) /\ \A p \in Players : Still(<<candidate(p)>>)
  BY <1>1, OneIsStill, NoneIsStill
<1> HIDE DEF first
<1>4. \E q : Still(q) /\ Ask(q)
  BY <1>2, <1>3, BothAreStill
<1>5. UNCHANGED <<clock, seat, leftAt, rows, failures>>
  BY DEF Event_BountyRoundStart, world, tables
<1> QED
  BY <1>4, <1>5, NobodyMoves

LEMMA ReportReports ==
    ASSUME BountiesAssumption, TypeOK,
           OnAnswer \/ OnBountiesExpired \/ OnDisconnectedBountiesRefunded
                    \/ OnBountiesSurvived \/ OnAutomaticBountyPlaced
    PROVE  Reported
<1>1. UNCHANGED <<clock, seat, leftAt, rows, failures, queue>>
  BY DEF OnAnswer, OnBountiesExpired, OnDisconnectedBountiesRefunded, OnBountiesSurvived,
        OnAutomaticBountyPlaced, world, tables, bounds
<1> QED
  BY <1>1, NobodyMoves

LEMMA OverdueReports ==
    ASSUME BountiesAssumption, EscrowInv, OnDisconnectedBountiesLoaded
    PROVE  Reported
<1> DEFINE ids == Head(results).value
           back == SetToSeq(Back(ids))
           clears == [i \in DOMAIN back |->
                        [op |-> "clear", player |-> rows[back[i]].target]]
           gone == [p \in Players |-> IF seat[p] = "away" THEN leftAt[p] ELSE 0]
           refund(t) == [op |-> "refund", ids |-> Overdue(ids), cutoff |-> clock - Grace,
                         token |-> t, left |-> gone]
<1>1. results # << >> /\ Head(results).request.op = "overdue"
  BY DEF OnDisconnectedBountiesLoaded, Taken
<1>2. ids \in SUBSET DOMAIN rows
  BY <1>1, FirstAnswer DEF Answered
<1>3. Still(clears)
  <2>1. Back(ids) \in SUBSET DOMAIN rows /\ \A b \in Back(ids) : Playing(rows[b].target)
    BY <1>2 DEF Back
  <2>2. IsFiniteSet(Back(ids))
    BY <2>1, RowsAreFinite DEF EscrowInv, TypeOK
  <2>3. IsSeq(back) /\ \A i \in DOMAIN back : back[i] \in Back(ids)
    BY <2>2, ListedIsSeq
  <2> HIDE DEF back
  <2>4. PICK n \in Nat : back = [i \in 1..n |-> back[i]]
    BY <2>3 DEF IsSeq
  <2>5. DOMAIN back = 1..n
    BY <2>4
  <2>6. IsSeq(clears)
    BY <2>5 DEF IsSeq
  <2>7. ASSUME NEW i \in DOMAIN clears
        PROVE  Timely(clears[i])
    <3>1. /\ clears[i].op = "clear" /\ clears[i].player = rows[back[i]].target
          /\ Playing(rows[back[i]].target)
      BY <2>1, <2>3
    <3>2. Gone(clears[i].player) = 0
      BY <3>1 DEF Gone, Playing
    <3> HIDE DEF clears
    <3> QED
      BY <3>1, <3>2 DEF Timely, Dated, StepFor
  <2> HIDE DEF clears
  <2> QED
    BY <2>6, <2>7 DEF Still
<1>4. ASSUME NEW t \in Tokens
      PROVE  Still(<<refund(t)>>)
  <2>1. \A p \in Players : refund(t).left[p] = Gone(p)
    BY DEF Gone
  <2>2. refund(t).op = "refund"
    OBVIOUS
  <2> HIDE DEF refund
  <2>3. Timely(refund(t))
    BY <2>1, <2>2 DEF Timely, Dated, StepFor
  <2> QED
    BY <2>3, OneIsStill
<1>5. \/ Ask(clears)
      \/ \E t \in Tokens : FreshToken(t) /\ Ask(clears \o <<refund(t)>>)
  BY DEF OnDisconnectedBountiesLoaded
<1> HIDE DEF clears, refund
<1>6. \E q : Still(q) /\ Ask(q)
  BY <1>3, <1>4, <1>5, BothAreStill
<1>7. UNCHANGED <<clock, seat, leftAt, rows, failures>>
  BY DEF OnDisconnectedBountiesLoaded, world, tables, bounds
<1> QED
  BY <1>6, <1>7, NobodyMoves DEF EscrowInv

LEMMA TargetsReport ==
    ASSUME BountiesAssumption, TypeOK, OnBountyProgressTargetsLoaded
    PROVE  Reported
<1> DEFINE present == {p \in Head(results).value : Playing(p)}
           progress(t, counted) ==
                [op |-> "progress", now |-> clock, token |-> t, counted |-> counted,
                 current |-> [p \in present |-> played[p]]]
<1>1. \/ UNCHANGED queue
      \/ \E t \in Tokens, counted \in BOOLEAN :
            FreshToken(t) /\ Ask(<<progress(t, counted)>>)
  BY DEF OnBountyProgressTargetsLoaded
<1> HIDE DEF present
<1>2. ASSUME NEW t, NEW counted
      PROVE  Timely(progress(t, counted))
  BY DEF Timely, StepFor
<1> HIDE DEF progress
<1>3. UNCHANGED queue \/ \E q : Still(q) /\ Ask(q)
  BY <1>1, <1>2, OneIsStill
<1>4. UNCHANGED <<clock, seat, leftAt, rows, failures>>
  BY DEF OnBountyProgressTargetsLoaded, world, tables, bounds
<1> QED
  BY <1>3, <1>4, NobodyMoves

LEMMA CandidateReports ==
    ASSUME BountiesAssumption, TypeOK, OnAutomaticBountyCandidateSelected
    PROVE  Reported
<1> DEFINE auto(p) == [op |-> "auto", target |-> p, now |-> clock, played |-> played[p]]
<1>1. UNCHANGED queue \/ \E p : Playing(p) /\ Ask(<<auto(p)>>)
  BY DEF OnAutomaticBountyCandidateSelected
<1>2. ASSUME NEW p, Playing(p)
      PROVE  Timely(auto(p))
  <2>1. Gone(p) = 0
    BY <1>2 DEF Gone, Playing
  <2> QED
    BY <2>1 DEF Timely, StepFor
<1> HIDE DEF auto
<1>3. UNCHANGED queue \/ \E q : Still(q) /\ Ask(q)
  BY <1>1, <1>2, OneIsStill
<1>4. UNCHANGED <<clock, seat, leftAt, rows, failures>>
  BY DEF OnAutomaticBountyCandidateSelected, world, tables, bounds
<1> QED
  BY <1>3, <1>4, NobodyMoves

------------------------------------------------------------------------------
(* What a statement does, whichever it is.                                 *)

Extends(req) ==
    \/ DOMAIN rows' = DOMAIN rows
    \/ req.op = "place" /\ CanPlace(req) /\ RowIsAdded(req.sender, req)
    \/ req.op = "auto" /\ CanPlaceAutomatically(req) /\ RowIsAdded(System, req)

MeasuredPace(req) ==
    \A b \in DOMAIN rows :
        IF b \in Measured(req)
        THEN rows'[b].progress = Progressed(b, req)
                /\ rows'[b].last = req.current[rows[b].target]
        ELSE SamePace(rows[b], rows'[b])
Paced(req) ==
    \/ PaceStays /\ DOMAIN rows' = DOMAIN rows
    \/ /\ req.op = "place" /\ RowIsAdded(req.sender, req)
       /\ \E progress : Joined(req, progress)
    \/ /\ req.op = "auto" /\ CanPlaceAutomatically(req)
       /\ PaceStays /\ RowIsAdded(System, req)
    \/ req.op = "progress" /\ DOMAIN rows' = DOMAIN rows /\ MeasuredPace(req)

Marked(req) ==
    \A b \in DOMAIN rows : rows'[b].disconnected =
        IF b \in ActiveOn(req.player, req.now) /\ rows[b].disconnected = 0
        THEN req.now ELSE rows[b].disconnected
Cleared(req) ==
    \A b \in DOMAIN rows : rows'[b].disconnected =
        IF rows[b].status = "active" /\ rows[b].target = req.player
        THEN 0 ELSE rows[b].disconnected
Absences(req) ==
    /\ req.op \notin {"mark", "clear"} => AbsencesStay
    /\ req.op = "mark" => Marked(req)
    /\ req.op = "clear" => Cleared(req)

Refunds(req) ==
    IF req.op = "refund"
    THEN \A b \in DOMAIN rows : rows'[b] = rows[b] \/ IsOverdue(b, req.cutoff)
    ELSE NoneIsRefunded

Effect(req) == OldRowsStay /\ Extends(req) /\ Paced(req)

LEMMA NoEffect ==
    ASSUME Typed, NEW req, UNCHANGED rows
    PROVE  Effect(req)
BY Unchanging DEF Effect, Extends, Paced

LEMMA StatementEffect ==
    ASSUME BountiesAssumption, Typed, NEW req, NEW ids, WellFormed(req, ids), Statement(req)
    PROVE  Effect(req) /\ Absences(req) /\ Refunds(req)
<1>1. ASSUME UNCHANGED rows, req.op \notin {"mark", "clear"}
      PROVE  Effect(req) /\ Absences(req) /\ Refunds(req)
  BY <1>1, NoEffect, Unchanging DEF Absences, Refunds
<1>2. CASE req.op = "place"
  <2>1. ExecutePlace(req)
    BY <1>2 DEF Statement
  <2>2. CASE ~UNCHANGED rows
    BY <1>2, <2>1, <2>2, PlaceEffect DEF Effect, Extends, Paced, Absences, Refunds
  <2> QED
    BY <1>1, <1>2, <2>2
<1>3. CASE req.op = "auto"
  <2>1. ExecuteAuto(req)
    BY <1>3 DEF Statement
  <2>2. CASE ~UNCHANGED rows
    BY <1>3, <2>1, <2>2, AutoEffect DEF Effect, Extends, Paced, Absences, Refunds
  <2> QED
    BY <1>1, <1>3, <2>2
<1>4. CASE req.op = "grow"
  <2>1. ExecuteGrow(req)
    BY <1>4 DEF Statement
  <2> QED
    BY <1>4, <2>1, GrowEffect DEF Effect, Extends, Paced, Absences, Refunds
<1>5. CASE req.op = "mark"
  <2>1. ExecuteMark(req)
    BY <1>5 DEF Statement
  <2>2. OldRowsStay /\ PaceStays /\ NoneIsRefunded /\ DOMAIN rows' = DOMAIN rows /\ Marked(req)
    BY <2>1, MarkEffect DEF Marked
  <2> QED
    BY <1>5, <2>2 DEF Effect, Extends, Paced, Absences, Refunds
<1>6. CASE req.op = "clear"
  <2>1. ExecuteClear(req)
    BY <1>6 DEF Statement
  <2>2. OldRowsStay /\ PaceStays /\ NoneIsRefunded /\ DOMAIN rows' = DOMAIN rows /\ Cleared(req)
    BY <2>1, ClearEffect DEF Cleared
  <2> QED
    BY <1>6, <2>2 DEF Effect, Extends, Paced, Absences, Refunds
<1>7. CASE req.op = "claim"
  <2>1. ExecuteClaim(req)
    BY <1>7 DEF Statement
  <2> QED
    BY <1>7, <2>1, ClaimEffect DEF Effect, Extends, Paced, Absences, Refunds
<1>8. CASE req.op = "expire"
  <2>1. ExecuteExpire(req)
    BY <1>8 DEF Statement
  <2> QED
    BY <1>8, <2>1, ExpireEffect DEF Effect, Extends, Paced, Absences, Refunds
<1>9. CASE req.op = "refund"
  <2>1. ExecuteRefund(req)
    BY <1>9 DEF Statement
  <2> QED
    BY <1>9, <2>1, RefundEffect DEF Effect, Extends, Paced, Absences, Refunds
<1>10. CASE req.op = "progress"
  <2>1. ExecuteProgress(req)
    BY <1>10 DEF Statement
  <2>2. /\ OldRowsStay /\ AbsencesStay /\ NoneIsRefunded /\ DOMAIN rows' = DOMAIN rows
        /\ MeasuredPace(req)
    BY <2>1, ProgressEffect DEF MeasuredPace
  <2> QED
    BY <1>10, <2>2 DEF Effect, Extends, Paced, Absences, Refunds
<1>11. CASE req.op \notin {"place", "auto", "grow", "mark", "clear", "claim", "expire",
                           "refund", "progress"}
  <2>1. UNCHANGED rows
    BY <1>11 DEF Statement, tables
  <2> QED
    BY <1>1, <1>11, <2>1
<1> QED
  BY <1>2, <1>3, <1>4, <1>5, <1>6, <1>7, <1>8, <1>9, <1>10, <1>11

------------------------------------------------------------------------------
(* The limits.                                                             *)

LEMMA RowsAreTyped ==
    ASSUME Typed, NEW b \in DOMAIN rows
    PROVE  /\ Len(rows) \in Nat /\ DOMAIN rows = 1..Len(rows) /\ b \in Nat
           /\ rows[b].placed \in Nat /\ rows[b].expires \in Nat /\ rows[b].target \in Players
           /\ rows[b].disconnected \in Nat
<1>1. rows[b] \in Rows
  BY RowsAreFinite DEF Typed
<1>2. Len(rows) \in Nat /\ DOMAIN rows = 1..Len(rows)
  BY LenProperties DEF Typed
<1> QED
  BY <1>1, <1>2 DEF Rows

LEMMA SpacedStep ==
    ASSUME BountiesAssumption, Typed, NEW req, NEW ids, WellFormed(req, ids), Effect(req),
           PlacementsAreSpaced
    PROVE  PlacementsAreSpaced'
<1>1. SUFFICES ASSUME NEW b \in DOMAIN rows', NEW c \in DOMAIN rows', b < c,
                      rows'[b].sender = rows'[c].sender
               PROVE  IF rows'[b].sender = System
                      THEN rows'[b].target = rows'[c].target =>
                              rows'[c].placed - rows'[b].placed >= AutoCooldown
                      ELSE rows'[c].placed - rows'[b].placed >= Cooldown
  BY DEF PlacementsAreSpaced
<1>2. CASE b \in DOMAIN rows /\ c \in DOMAIN rows
  <2>1. Kin(rows[b], rows'[b]) /\ Kin(rows[c], rows'[c])
    BY <1>2 DEF Effect, OldRowsStay
  <2> QED
    BY <1>1, <1>2, <2>1 DEF PlacementsAreSpaced, Kin
<1>3. ASSUME NEW sender, RowIsAdded(sender, req), ~(b \in DOMAIN rows /\ c \in DOMAIN rows)
      PROVE  /\ b \in DOMAIN rows /\ Kin(rows[b], rows'[b]) /\ rows[b].placed \in Nat
             /\ IsNew(rows'[c], sender, req)
  <2>1. Len(rows) \in Nat /\ DOMAIN rows = 1..Len(rows)
    BY LenProperties DEF Typed
  <2>2. DOMAIN rows' = 1..(Len(rows) + 1) /\ IsNew(rows'[Len(rows) + 1], sender, req)
    BY <1>3 DEF RowIsAdded
  <2>3. b \in DOMAIN rows /\ c = Len(rows) + 1
    BY <1>1, <1>3, <2>1, <2>2
  <2> QED
    BY <2>2, <2>3, RowsAreTyped DEF Effect, OldRowsStay
<1>4. CASE /\ ~(b \in DOMAIN rows /\ c \in DOMAIN rows)
           /\ req.op = "place" /\ CanPlace(req) /\ RowIsAdded(req.sender, req)
  <2>1. /\ b \in DOMAIN rows /\ Kin(rows[b], rows'[b]) /\ rows[b].placed \in Nat
        /\ IsNew(rows'[c], req.sender, req)
    BY <1>3, <1>4
  <2>2. /\ req.sender \in Players /\ req.sender # System /\ req.now \in Nat
    BY <1>4 DEF WellFormed, BountiesAssumption
  <2>3. rows[b].sender = req.sender /\ rows'[b].placed = rows[b].placed
        /\ rows'[c].placed = req.now /\ rows'[b].sender = req.sender
    BY <1>1, <2>1 DEF Kin, IsNew
  <2>4. rows[b].placed <= req.now - Cooldown
    BY <1>4, <2>1, <2>3 DEF CanPlace
  <2> QED
    BY <2>1, <2>2, <2>3, <2>4 DEF BountiesAssumption
<1>5. CASE /\ ~(b \in DOMAIN rows /\ c \in DOMAIN rows)
           /\ req.op = "auto" /\ CanPlaceAutomatically(req) /\ RowIsAdded(System, req)
  <2>1. /\ b \in DOMAIN rows /\ Kin(rows[b], rows'[b]) /\ rows[b].placed \in Nat
        /\ IsNew(rows'[c], System, req)
    BY <1>3, <1>5
  <2>2. req.now \in Nat
    BY <1>5 DEF WellFormed
  <2>3. rows[b].sender = System /\ rows'[b].sender = System
        /\ rows'[b].placed = rows[b].placed /\ rows'[b].target = rows[b].target
        /\ rows'[c].placed = req.now /\ rows'[c].target = req.target
    BY <1>1, <2>1 DEF Kin, IsNew
  <2>4. rows[b].target = req.target => rows[b].placed <= req.now - AutoCooldown
    BY <1>5, <2>1, <2>3 DEF CanPlaceAutomatically
  <2> QED
    BY <2>1, <2>2, <2>3, <2>4 DEF BountiesAssumption
<1> QED
  BY <1>1, <1>2, <1>4, <1>5 DEF Effect, Extends

Cap(n) == Cardinality(ActiveTargets(n)) <= MaxActive

LEMMA TargetsAreFinite ==
    ASSUME Typed, NEW n
    PROVE  IsFiniteSet(ActiveTargets(n)) /\ Cardinality(ActiveTargets(n)) \in Nat
<1> DEFINE Target(b) == rows[b].target
           S == Active(n)
<1>1. IsFiniteSet(S)
  BY RowsAreFinite DEF Typed, Active
<1> HIDE DEF S
<1>2. [b \in S |-> Target(b)] \in Surjection(S, {Target(b) : b \in S})
  BY DEF Surjection
<1>3. IsFiniteSet(ActiveTargets(n))
  BY <1>1, <1>2, FS_Surjection DEF ActiveTargets, S
<1> QED
  BY <1>3, FS_CardinalityType

(* A set within n targets, or within fewer and one more, is within n.      *)
LEMMA CapKept ==
    ASSUME NEW S, IsFiniteSet(S), NEW T, NEW x, NEW n \in Nat,
           \/ T \subseteq S /\ Cardinality(S) <= n
           \/ T \subseteq S \cup {x} /\ Cardinality(S) < n
    PROVE  Cardinality(T) <= n
<1>1. CASE T \subseteq S /\ Cardinality(S) <= n
  <2>1. IsFiniteSet(T) /\ Cardinality(T) <= Cardinality(S)
    BY <1>1, FS_Subset
  <2> QED
    BY <1>1, <2>1, FS_CardinalityType
<1>2. CASE T \subseteq S \cup {x} /\ Cardinality(S) < n
  <2>1. /\ IsFiniteSet(S \cup {x}) /\ Cardinality(S) \in Nat
        /\ Cardinality(S \cup {x}) = Cardinality(S) \/ Cardinality(S \cup {x}) = Cardinality(S) + 1
    BY FS_AddElement, FS_CardinalityType
  <2>2. /\ IsFiniteSet(T) /\ Cardinality(T) <= Cardinality(S \cup {x})
        /\ Cardinality(T) \in Nat
    BY <1>2, <2>1, FS_Subset, FS_CardinalityType
  <2> QED
    BY <1>2, <2>1, <2>2
<1> QED
  BY <1>1, <1>2

LEMMA ActiveShrinks ==
    ASSUME Typed, NEW m \in Nat, NEW n \in Nat, m <= n
    PROVE  Active(n) \subseteq Active(m) /\ ActiveTargets(n) \subseteq ActiveTargets(m)
<1>1. \A b \in DOMAIN rows : rows[b].expires \in Nat
  BY RowsAreTyped
<1>2. Active(n) \subseteq Active(m)
  BY <1>1 DEF Active, IsActive
<1> QED
  BY <1>2 DEF ActiveTargets

LEMMA CapLater ==
    ASSUME BountiesAssumption, Typed, NEW m \in Nat, NEW n \in Nat, m <= n, Cap(m)
    PROVE  Cap(n)
<1>1. IsFiniteSet(ActiveTargets(m)) /\ ActiveTargets(n) \subseteq ActiveTargets(m)
  BY TargetsAreFinite, ActiveShrinks
<1> QED
  BY <1>1, CapKept DEF Cap, BountiesAssumption

LEMMA CapStep ==
    ASSUME BountiesAssumption, Typed, NEW req, NEW ids, WellFormed(req, ids), Effect(req),
           NEW n \in Nat, Cap(n),
           req.op \in {"place", "auto"} => req.now <= n /\ Cap(req.now)
    PROVE  Cap(n)'
<1>1. MaxActive \in Nat
  BY DEF BountiesAssumption
<1>2. CASE DOMAIN rows' = DOMAIN rows
  <2>1. ActiveTargets(n)' \subseteq ActiveTargets(n)
    BY <1>2 DEF ActiveTargets, Active, IsActive, Effect, OldRowsStay, Kin
  <2>2. IsFiniteSet(ActiveTargets(n))
    BY TargetsAreFinite
  <2> QED
    BY <1>1, <2>1, <2>2, CapKept DEF Cap
<1>3. ASSUME req.op \in {"place", "auto"}, NEW sender, RowIsAdded(sender, req)
      PROVE  /\ IsFiniteSet(ActiveTargets(req.now))
             /\ ActiveTargets(n)' \subseteq ActiveTargets(req.now) \cup {req.target}
  <2>1. req.now \in Nat /\ req.now <= n
    BY <1>3 DEF WellFormed
  <2>2. ActiveTargets(n) \subseteq ActiveTargets(req.now)
    BY <2>1, ActiveShrinks
  <2>3. /\ Len(rows) \in Nat /\ DOMAIN rows = 1..Len(rows)
        /\ DOMAIN rows' = 1..(Len(rows) + 1)
        /\ rows'[Len(rows) + 1].target = req.target
    BY <1>3, LenProperties DEF Typed, RowIsAdded, IsNew
  <2>4. ASSUME NEW b \in DOMAIN rows', IsActive(b, n)'
        PROVE  rows'[b].target \in ActiveTargets(n) \cup {req.target}
    <3>1. CASE b \in DOMAIN rows
      BY <2>4, <3>1 DEF ActiveTargets, Active, IsActive, Effect, OldRowsStay, Kin
    <3>2. CASE b \notin DOMAIN rows
      <4>1. b = Len(rows) + 1
        BY <2>3, <3>2
      <4> QED
        BY <2>3, <4>1
    <3> QED
      BY <3>1, <3>2
  <2>5. ActiveTargets(n)' \subseteq ActiveTargets(n) \cup {req.target}
    BY <2>4 DEF ActiveTargets, Active
  <2>6. IsFiniteSet(ActiveTargets(req.now))
    BY TargetsAreFinite
  <2> QED
    BY <2>2, <2>5, <2>6
<1>4. CASE req.op = "place" /\ CanPlace(req) /\ RowIsAdded(req.sender, req)
  <2> DEFINE S == ActiveTargets(req.now)
  <2>1. IsFiniteSet(S) /\ ActiveTargets(n)' \subseteq S \cup {req.target} /\ Cardinality(S) <= MaxActive
    BY <1>3, <1>4 DEF Cap
  <2>2. req.target \in S \/ Cardinality(S) < MaxActive
    BY <1>4 DEF CanPlace
  <2> HIDE DEF S
  <2>3. Cardinality(ActiveTargets(n)') <= MaxActive
    BY <1>1, <2>1, <2>2, CapKept
  <2> QED
    BY <2>3 DEF Cap
<1>5. CASE req.op = "auto" /\ CanPlaceAutomatically(req) /\ RowIsAdded(System, req)
  <2> DEFINE S == ActiveTargets(req.now)
  <2>1. IsFiniteSet(S) /\ ActiveTargets(n)' \subseteq S \cup {req.target} /\ Cardinality(S) < MaxActive
    BY <1>3, <1>5 DEF CanPlaceAutomatically
  <2> HIDE DEF S
  <2>2. Cardinality(ActiveTargets(n)') <= MaxActive
    BY <1>1, <2>1, CapKept
  <2> QED
    BY <2>2 DEF Cap
<1> QED
  BY <1>2, <1>4, <1>5 DEF Effect, Extends

------------------------------------------------------------------------------
(* The shared progress of a stack.                                         *)

InStep(b, c) == rows[b].progress = rows[c].progress /\ rows[b].last = rows[c].last

LEMMA SharesStep ==
    ASSUME BountiesAssumption, Typed, NEW req, NEW ids, WellFormed(req, ids), Effect(req),
           clock \in Nat, UNCHANGED clock, StackSharesProgress,
           req.op \in {"place", "auto", "progress"} => req.now \in Nat /\ req.now <= clock
    PROVE  StackSharesProgress'
<1>1. ASSUME NEW b \in Active(clock)', b \in DOMAIN rows
      PROVE  /\ b \in Active(clock) /\ Kin(rows[b], rows'[b])
             /\ req.op \in {"place", "auto", "progress"} => b \in Active(req.now)
  <2>1. Kin(rows[b], rows'[b]) /\ rows'[b].status = "active" /\ rows'[b].expires > clock
    BY <1>1 DEF Effect, OldRowsStay, Active, IsActive
  <2>2. rows[b].expires \in Nat
    BY <1>1, RowsAreTyped
  <2>3. rows[b].status = "active" /\ rows[b].expires > clock
    BY <2>1 DEF Kin
  <2>4. ASSUME req.now \in Nat, req.now <= clock
        PROVE  rows[b].expires > req.now
    BY <2>2, <2>3, <2>4
  <2> QED
    BY <1>1, <2>1, <2>3, <2>4 DEF Active, IsActive
<1>2. ASSUME NEW b \in Active(clock)', NEW c \in Active(clock)',
             b \in DOMAIN rows, c \in DOMAIN rows, rows'[b].target = rows'[c].target
      PROVE  rows[b].target = rows[c].target /\ InStep(b, c)
  BY <1>1, <1>2 DEF StackSharesProgress, Kin, InStep
<1>3. CASE PaceStays /\ DOMAIN rows' = DOMAIN rows
  <2>1. Active(clock)' \subseteq DOMAIN rows
    BY <1>3 DEF Active
  <2> QED
    BY <1>2, <1>3, <2>1 DEF StackSharesProgress, PaceStays, SamePace, InStep
<1>4. ASSUME NEW sender, RowIsAdded(sender, req), NEW b \in Active(clock)'
      PROVE  \/ b \in DOMAIN rows
             \/ b = Len(rows) + 1 /\ rows'[b].target = req.target
  <2>1. /\ Len(rows) \in Nat /\ DOMAIN rows = 1..Len(rows)
        /\ DOMAIN rows' = 1..(Len(rows) + 1)
        /\ rows'[Len(rows) + 1].target = req.target
    BY <1>4, LenProperties DEF Typed, RowIsAdded, IsNew
  <2>2. b \in DOMAIN rows'
    BY DEF Active
  <2> QED
    BY <2>1, <2>2
<1>5. CASE req.op = "place" /\ RowIsAdded(req.sender, req) /\ \E progress : Joined(req, progress)
  <2>1. PICK progress : Joined(req, progress)
    BY <1>5
  <2>2. ASSUME NEW b \in Active(clock)'
        PROVE  IF rows'[b].target = req.target
               THEN rows'[b].progress = progress /\ rows'[b].last = req.played
               ELSE b \in DOMAIN rows /\ SamePace(rows[b], rows'[b])
    <3>1. CASE b \in DOMAIN rows
      <4>1. b \in Active(req.now) /\ rows'[b].target = rows[b].target
        BY <1>1, <1>5, <3>1 DEF Kin
      <4> QED
        BY <2>1, <3>1, <4>1 DEF Joined, ActiveOn
    <3>2. CASE b = Len(rows) + 1 /\ rows'[b].target = req.target
      BY <2>1, <3>2 DEF Joined
    <3> QED
      BY <1>4, <1>5, <3>1, <3>2
  <2> QED
    BY <1>2, <2>2 DEF StackSharesProgress, SamePace, InStep
<1>6. CASE /\ req.op = "auto" /\ CanPlaceAutomatically(req)
           /\ PaceStays /\ RowIsAdded(System, req)
  <2>1. ASSUME NEW b \in Active(clock)', b \in DOMAIN rows
        PROVE  rows'[b].target # req.target
    <3>1. b \in Active(req.now) /\ rows'[b].target = rows[b].target
      BY <1>1, <1>6, <2>1 DEF Kin
    <3> QED
      BY <1>6, <3>1 DEF CanPlaceAutomatically, ActiveTargets
  <2>2. ASSUME NEW b \in Active(clock)', NEW c \in Active(clock)',
               rows'[b].target = rows'[c].target
        PROVE  b = c \/ (b \in DOMAIN rows /\ c \in DOMAIN rows)
    BY <1>4, <1>6, <2>1, <2>2
  <2> QED
    BY <1>2, <1>6, <2>2 DEF StackSharesProgress, PaceStays, SamePace, InStep
<1>7. CASE req.op = "progress" /\ DOMAIN rows' = DOMAIN rows /\ MeasuredPace(req)
  <2>1. Active(clock)' \subseteq DOMAIN rows
    BY <1>7 DEF Active
  <2>2. ASSUME NEW b \in Active(clock)', NEW c \in Active(clock)',
               rows'[b].target = rows'[c].target
        PROVE  rows'[b].progress = rows'[c].progress /\ rows'[b].last = rows'[c].last
    <3>1. /\ b \in DOMAIN rows /\ c \in DOMAIN rows
          /\ rows[b].target = rows[c].target
          /\ rows[b].progress = rows[c].progress /\ rows[b].last = rows[c].last
      BY <1>2, <2>1, <2>2 DEF InStep
    <3>2. b \in Active(req.now) /\ c \in Active(req.now)
      BY <1>1, <1>7, <3>1
    <3>3. CASE rows[b].target \in DOMAIN req.current
      <4>1. b \in Measured(req) /\ c \in Measured(req)
        BY <3>1, <3>2, <3>3 DEF Measured
      <4>2. Progressed(b, req) = Progressed(c, req)
        BY <3>1, <4>1 DEF Progressed, Gained
      <4>3. /\ rows'[b].progress = Progressed(b, req)
            /\ rows'[b].last = req.current[rows[b].target]
            /\ rows'[c].progress = Progressed(c, req)
            /\ rows'[c].last = req.current[rows[c].target]
        BY <1>7, <3>1, <4>1 DEF MeasuredPace
      <4> QED
        BY <3>1, <4>2, <4>3
    <3>4. CASE rows[b].target \notin DOMAIN req.current
      <4>1. b \notin Measured(req) /\ c \notin Measured(req)
        BY <3>1, <3>4 DEF Measured
      <4>2. SamePace(rows[b], rows'[b]) /\ SamePace(rows[c], rows'[c])
        BY <1>7, <3>1, <4>1 DEF MeasuredPace
      <4> QED
        BY <3>1, <4>2 DEF SamePace
    <3> QED
      BY <3>3, <3>4
  <2> QED
    BY <2>2 DEF StackSharesProgress
<1> QED
  BY <1>3, <1>5, <1>6, <1>7 DEF Effect, Paced

------------------------------------------------------------------------------
(* What the table says of one player's absence: the rows that count carry  *)
(* its time, those whose week is over may have missed it.                  *)

Shows(p, n) ==
    \A b \in DOMAIN rows : rows[b].status = "active" /\ rows[b].target = p =>
        /\ rows[b].disconnected \in {0, n}
        /\ rows[b].expires > clock => rows[b].disconnected = n

LEMMA ShowsStep ==
    ASSUME BountiesAssumption, Typed, NEW req, Effect(req), Absences(req),
           NEW p, NEW m, NEW n, StepFor(p, req, m, n), Shows(p, m),
           clock \in Nat, UNCHANGED clock,
           req.op = "mark" => req.now \in Nat /\ req.now <= clock
    PROVE  Shows(p, n)'
<1>1. SUFFICES ASSUME NEW b \in DOMAIN rows',
                      rows'[b].status = "active", rows'[b].target = p
               PROVE  /\ rows'[b].disconnected \in {0, n}
                      /\ rows'[b].expires > clock => rows'[b].disconnected = n
  BY DEF Shows
<1>2. CASE b \in DOMAIN rows
  <2>1. /\ rows[b].status = "active" /\ rows[b].target = p
        /\ rows'[b].expires = rows[b].expires /\ rows[b].expires \in Nat
    BY <1>1, <1>2, RowsAreTyped DEF Effect, OldRowsStay, Kin
  <2>2. /\ rows[b].disconnected \in {0, m}
        /\ rows[b].expires > clock => rows[b].disconnected = m
    BY <1>2, <2>1 DEF Shows
  <2>3. CASE req.op = "mark" /\ req.player = p
    <3>1. m = 0 /\ n = req.now
      BY <2>3 DEF StepFor
    <3>2. rows'[b].disconnected =
            IF b \in ActiveOn(req.player, req.now) /\ rows[b].disconnected = 0
            THEN req.now ELSE rows[b].disconnected
      BY <1>2, <2>3 DEF Absences, Marked
    <3>3. rows[b].expires > clock => b \in ActiveOn(req.player, req.now)
      BY <1>2, <2>1, <2>3 DEF ActiveOn, Active, IsActive
    <3> QED
      BY <2>1, <2>2, <3>1, <3>2, <3>3
  <2>4. CASE req.op = "clear" /\ req.player = p
    <3>1. n = 0
      BY <2>4 DEF StepFor
    <3>2. rows'[b].disconnected = 0
      BY <1>2, <2>1, <2>4 DEF Absences, Cleared
    <3> QED
      BY <3>1, <3>2
  <2>5. CASE ~(req.op \in {"mark", "clear"} /\ req.player = p)
    <3>1. n = m
      BY <2>5 DEF StepFor
    <3>2. rows'[b].disconnected = rows[b].disconnected
      BY <1>2, <2>1, <2>5
      DEF Absences, AbsencesStay, SameAbsence, Marked, Cleared, ActiveOn
    <3> QED
      BY <2>1, <2>2, <3>1, <3>2
  <2> QED
    BY <2>3, <2>4, <2>5
<1>3. ASSUME req.op \in {"place", "auto"}, NEW sender, RowIsAdded(sender, req), b \notin DOMAIN rows
      PROVE  rows'[b].disconnected = 0 /\ n = 0
  <2>1. /\ Len(rows) \in Nat /\ DOMAIN rows = 1..Len(rows)
        /\ DOMAIN rows' = 1..(Len(rows) + 1)
        /\ rows'[Len(rows) + 1].target = req.target
        /\ rows'[Len(rows) + 1].disconnected = 0
    BY <1>3, LenProperties DEF Typed, RowIsAdded, IsNew
  <2>2. b = Len(rows) + 1
    BY <1>3, <2>1
  <2> QED
    BY <1>1, <1>3, <2>1, <2>2 DEF StepFor
<1>4. CASE b \notin DOMAIN rows
  BY <1>3, <1>4 DEF Effect, Extends
<1> QED
  BY <1>2, <1>4

------------------------------------------------------------------------------
(* The invariant.                                                          *)

Pends(n) == \E i \in DOMAIN queue : queue[i].op \in {"place", "auto"} /\ queue[i].now = n

(* The cap holds at the moment of every placement under way, too.          *)
Capped == \A n \in Nat : n = clock \/ Pends(n) => Cap(n)

(* Until a query fails, the table is where the worker has come to.         *)
AbsenceKnown(p) == \E n \in Nat : Tells(p, queue, n, Gone(p)) /\ Shows(p, n)
AbsencesKnown == failures = 0 => \A p \in Players : AbsenceKnown(p)

TableInv ==
    /\ Ordered(queue, clock) /\ LeftOnTime
    /\ Capped /\ PlacementsAreSpaced
    /\ StackSharesProgress /\ AbsencesKnown

LEMMA TableInvInit ==
    ASSUME BountiesAssumption, Init
    PROVE  TableInv
<1>1. /\ queue = << >> /\ rows = << >> /\ DOMAIN queue = {} /\ DOMAIN rows = {}
      /\ clock = 1 /\ \A p \in Players : seat[p] = "playing"
  BY DEF Init
<1>2. Ordered(queue, clock) /\ LeftOnTime /\ PlacementsAreSpaced /\ StackSharesProgress
  BY <1>1 DEF Ordered, LeftOnTime, PlacementsAreSpaced, StackSharesProgress, Active
<1>3. Capped
  <2>1. ASSUME NEW n \in Nat
        PROVE  Cap(n)
    <3>1. ActiveTargets(n) = {}
      BY <1>1 DEF ActiveTargets, Active
    <3> QED
      BY <3>1, FS_EmptySet DEF Cap, BountiesAssumption
  <2> QED
    BY <2>1 DEF Capped
<1>4. AbsencesKnown
  <2>1. ASSUME NEW p \in Players
        PROVE  AbsenceKnown(p)
    <3>1. Gone(p) = 0 /\ Shows(p, 0)
      BY <1>1 DEF Gone, Shows
    <3>2. Tells(p, queue, 0, 0)
      BY <1>1, NoneIsSeq, TellsStill
    <3> QED
      BY <3>1, <3>2 DEF AbsenceKnown
  <2> QED
    BY <2>1 DEF AbsencesKnown
<1> QED
  BY <1>2, <1>3, <1>4 DEF TableInv

(* The main thread adds to the queue what it knows at the time.            *)
LEMMA OrderGrows ==
    ASSUME NEW q, IsSeq(q), IsSeq(queue), Ask(q), clock \in Nat, Ordered(queue, clock),
           \A i \in DOMAIN q : q[i].op \in Dated => q[i].now = clock
    PROVE  /\ Ordered(queue', clock)
           /\ \A n : Pends(n)' => Pends(n) \/ n = clock
<1>1. /\ Len(queue) \in Nat
      /\ \A i \in DOMAIN (queue \o q) :
            /\ i \in Int
            /\ IF i <= Len(queue)
               THEN i \in DOMAIN queue /\ (queue \o q)[i] = queue[i]
               ELSE i - Len(queue) \in DOMAIN q /\ (queue \o q)[i] = q[i - Len(queue)]
  BY ConcatIsSeq
<1>2. queue' = queue \o q
  BY DEF Ask
<1>3. ASSUME NEW i \in DOMAIN queue', queue'[i].op \in Dated
      PROVE  /\ i \in Int /\ queue'[i].now \in Nat /\ queue'[i].now <= clock
             /\ \/ i <= Len(queue) /\ i \in DOMAIN queue /\ queue'[i] = queue[i]
                \/ i > Len(queue) /\ queue'[i].now = clock
  BY <1>1, <1>2, <1>3 DEF Ordered
<1>4. ASSUME NEW i \in DOMAIN queue', NEW j \in DOMAIN queue', i < j,
             queue'[i].op \in Dated, queue'[j].op \in Dated
      PROVE  queue'[i].now <= queue'[j].now
  BY <1>1, <1>3, <1>4 DEF Ordered
<1>5. ASSUME NEW n, Pends(n)'
      PROVE  Pends(n) \/ n = clock
  BY <1>3, <1>5 DEF Pends, Dated
<1> QED
  BY <1>3, <1>4, <1>5 DEF Ordered

LEMMA TableAsks ==
    ASSUME BountiesAssumption, EscrowInv, TableInv, Reported
    PROVE  TableInv'
<1>1. /\ Typed /\ IsSeq(queue) /\ clock \in Nat
  BY DEF EscrowInv, TypeOK, Typed, Sound, BountiesAssumption
<1>2. /\ UNCHANGED rows /\ UNCHANGED failures /\ clock' \in Nat /\ clock <= clock'
  BY DEF Reported
<1>3. LeftOnTime' /\ PlacementsAreSpaced'
  BY <1>2 DEF TableInv, Reported, PlacementsAreSpaced
<1>4. StackSharesProgress'
  <2>1. Active(clock') \subseteq Active(clock)
    BY <1>1, <1>2, ActiveShrinks
  <2>2. Active(clock)' = Active(clock')
    BY <1>2 DEF Active, IsActive
  <2> QED
    BY <1>2, <2>1, <2>2 DEF TableInv, StackSharesProgress
<1>5. Ordered(queue', clock) /\ \A n : Pends(n)' => Pends(n) \/ n = clock
  <2>1. CASE UNCHANGED queue
    BY <2>1 DEF TableInv, Pends
  <2>2. ASSUME NEW q, News(q)
        PROVE  Ordered(queue', clock) /\ \A n : Pends(n)' => Pends(n) \/ n = clock
    BY <1>1, <2>2, OrderGrows DEF News, TableInv
  <2> QED
    BY <2>1, <2>2 DEF Reported
<1>6. Ordered(queue, clock)'
  BY <1>1, <1>2, <1>5 DEF Ordered
<1>7. Capped'
  <2>1. ASSUME NEW n \in Nat, n = clock' \/ Pends(n)'
        PROVE  Cap(n)'
    <3>1. Cap(n)
      <4>1. Cap(clock)
        BY <1>1 DEF TableInv, Capped
      <4>2. CASE Pends(n)
        BY <4>2 DEF TableInv, Capped
      <4>3. CASE clock <= n
        BY <1>1, <4>1, <4>3, CapLater
      <4> QED
        BY <1>1, <1>2, <1>5, <2>1, <4>2, <4>3
    <3>2. Cap(n)' <=> Cap(n)
      BY <1>2 DEF Cap, ActiveTargets, Active, IsActive
    <3> QED
      BY <3>1, <3>2
  <2> QED
    BY <2>1 DEF Capped
<1>8. AbsencesKnown'
  <2>1. ASSUME failures = 0, NEW p \in Players
        PROVE  AbsenceKnown(p)'
    <3>1. PICK n \in Nat : Tells(p, queue, n, Gone(p)) /\ Shows(p, n)
      BY <2>1 DEF TableInv, AbsencesKnown, AbsenceKnown
    <3>2. Shows(p, n)'
      <4>1. \A b \in DOMAIN rows : rows[b].expires \in Nat
        BY <1>1, RowsAreTyped
      <4> QED
        BY <1>1, <1>2, <3>1, <4>1 DEF Shows
    <3>3. Tells(p, queue', n, Gone(p)')
      <4>1. CASE UNCHANGED queue /\ Gone(p)' = Gone(p)
        BY <3>1, <4>1
      <4>2. ASSUME NEW q, News(q)
            PROVE  Tells(p, queue', n, Gone(p)')
        <5>1. IsSeq(q) /\ queue' = queue \o q /\ Tells(p, q, Gone(p), Gone(p)')
          BY <4>2 DEF News, Ask
        <5> DEFINE a == Gone(p)
                   b == Gone(p)'
        <5> HIDE DEF a, b
        <5>2. Tells(p, queue, n, a) /\ Tells(p, q, a, b)
          BY <3>1, <5>1 DEF a, b
        <5>3. Tells(p, queue \o q, n, b)
          BY <1>1, <5>1, <5>2, TellsBoth
        <5> QED
          BY <5>1, <5>3 DEF b
      <4> QED
        BY <4>1, <4>2 DEF Reported
    <3>4. Tells(p, queue, n, Gone(p))'
      BY <3>3 DEF Tells, Tale
    <3> QED
      BY <3>2, <3>4 DEF AbsenceKnown
  <2> QED
    BY <1>2, <2>1 DEF AbsencesKnown
<1> QED
  BY <1>3, <1>4, <1>6, <1>7, <1>8 DEF TableInv

(* The worker executes the oldest request, or the database refuses it.     *)
LEMMA HeadIsKnown ==
    ASSUME EscrowInv, TableInv, queue # << >>, queue' = Tail(queue), UNCHANGED clock
    PROVE  /\ clock \in Nat
           /\ Head(queue).op \in Dated => Head(queue).now \in Nat /\ Head(queue).now <= clock
           /\ Head(queue).op \in {"place", "auto"} => Cap(Head(queue).now)
           /\ Ordered(queue, clock)'
           /\ \A n : Pends(n)' =>
                /\ Pends(n)
                /\ Head(queue).op \in {"place", "auto"} => Head(queue).now <= n
<1>1. /\ Head(queue) = queue[1] /\ 1 \in DOMAIN queue
      /\ \A i \in DOMAIN Tail(queue) :
            i + 1 \in DOMAIN queue /\ Tail(queue)[i] = queue[i + 1] /\ i \in Nat \ {0}
  BY TailIsSeq DEF EscrowInv, Sound
<1>2. clock \in Nat
  BY DEF EscrowInv, TypeOK
<1>3. Head(queue).op \in Dated => Head(queue).now \in Nat /\ Head(queue).now <= clock
  BY <1>1 DEF TableInv, Ordered
<1>4. Head(queue).op \in {"place", "auto"} => Cap(Head(queue).now)
  BY <1>1, <1>3 DEF TableInv, Capped, Pends, Dated
<1>5. Ordered(queue, clock)'
  <2>1. ASSUME NEW i \in DOMAIN Tail(queue), NEW j \in DOMAIN Tail(queue), i < j,
               Tail(queue)[i].op \in Dated, Tail(queue)[j].op \in Dated
        PROVE  Tail(queue)[i].now <= Tail(queue)[j].now
    <3>1. /\ i + 1 \in DOMAIN queue /\ j + 1 \in DOMAIN queue /\ i + 1 < j + 1
          /\ Tail(queue)[i] = queue[i + 1] /\ Tail(queue)[j] = queue[j + 1]
      BY <1>1, <2>1
    <3> QED
      BY <2>1, <3>1 DEF TableInv, Ordered
  <2>2. ASSUME NEW i \in DOMAIN Tail(queue), Tail(queue)[i].op \in Dated
        PROVE  Tail(queue)[i].now \in Nat /\ Tail(queue)[i].now <= clock
    BY <1>1, <2>2 DEF TableInv, Ordered
  <2> QED
    BY <2>1, <2>2 DEF Ordered
<1>6. ASSUME NEW n, Pends(n)'
      PROVE  /\ Pends(n)
             /\ Head(queue).op \in {"place", "auto"} => Head(queue).now <= n
  <2>1. PICK i \in DOMAIN Tail(queue) :
            Tail(queue)[i].op \in {"place", "auto"} /\ Tail(queue)[i].now = n
    BY <1>6 DEF Pends
  <2>2. /\ i + 1 \in DOMAIN queue /\ 1 < i + 1
        /\ queue[i + 1].op \in {"place", "auto"} /\ queue[i + 1].now = n
    BY <1>1, <2>1
  <2>3. Pends(n)
    BY <2>2 DEF Pends
  <2>4. Head(queue).op \in {"place", "auto"} => Head(queue).now <= n
    BY <1>1, <2>2 DEF TableInv, Ordered, Dated
  <2> QED
    BY <2>3, <2>4
<1> QED
  BY <1>2, <1>3, <1>4, <1>5, <1>6

LEMMA TableExecutes ==
    ASSUME BountiesAssumption, EscrowInv, TableInv, Execute
    PROVE  TableInv'
<1> DEFINE req == Head(queue)
<1>1. queue # << >> /\ queue' = Tail(queue) /\ UNCHANGED <<clock, seat, leftAt>>
  BY DEF Execute, world
<1>2. WellFormed(req, DOMAIN rows) /\ Typed
  BY ExecuteKeeps DEF EscrowInv, TypeOK, Typed
<1>3. /\ clock \in Nat
      /\ req.op \in Dated => req.now \in Nat /\ req.now <= clock
      /\ req.op \in {"place", "auto"} => Cap(req.now)
      /\ Ordered(queue, clock)'
      /\ \A n : Pends(n)' =>
            Pends(n) /\ (req.op \in {"place", "auto"} => req.now <= n)
  BY <1>1, HeadIsKnown
<1>4. \/ Effect(req) /\ Absences(req) /\ UNCHANGED failures
      \/ UNCHANGED rows /\ failures' = failures + 1
  <2>1. Statement(req) => Effect(req) /\ Absences(req)
    BY <1>2, StatementEffect
  <2>2. \/ Statement(req) /\ UNCHANGED failures
        \/ UNCHANGED tables /\ failures' = failures + 1
    BY Zenon DEF Execute
  <2> QED
    BY <2>1, <2>2 DEF tables
<1>5. Effect(req)
  BY <1>2, <1>4, NoEffect
<1>6. IsSeq(queue)
  BY DEF EscrowInv, Sound
<1>7. LeftOnTime'
  BY <1>1 DEF TableInv, LeftOnTime
<1> HIDE DEF req
<1>8. PlacementsAreSpaced'
  BY <1>2, <1>5, SpacedStep DEF TableInv
<1>9. StackSharesProgress'
  BY <1>1, <1>2, <1>3, <1>5, SharesStep DEF TableInv, Dated
<1>10. Capped'
  <2>1. ASSUME NEW n \in Nat, n = clock' \/ Pends(n)'
        PROVE  Cap(n)'
    <3>1. Cap(n) /\ (req.op \in {"place", "auto"} => req.now <= n)
      BY <1>1, <1>3, <2>1 DEF TableInv, Capped, Dated
    <3> QED
      BY <1>2, <1>3, <1>5, <3>1, CapStep
  <2> QED
    BY <2>1 DEF Capped
<1>11. AbsencesKnown'
  <2>1. CASE failures' = failures + 1
    BY <2>1 DEF EscrowInv, TypeOK, AbsencesKnown
  <2>2. ASSUME Absences(req), UNCHANGED failures, failures = 0, NEW p \in Players
        PROVE  AbsenceKnown(p)'
    <3>1. PICK m \in Nat : Tells(p, queue, m, Gone(p)) /\ Shows(p, m)
      BY <2>2 DEF TableInv, AbsencesKnown, AbsenceKnown
    <3>2. PICK n \in Nat : StepFor(p, req, m, n) /\ Tells(p, Tail(queue), n, Gone(p))
      BY <1>1, <1>6, <3>1, TellsFirst DEF req
    <3>3. Shows(p, n)'
      BY <1>1, <1>2, <1>3, <1>5, <2>2, <3>1, <3>2, ShowsStep DEF Dated
    <3>4. Tells(p, queue, n, Gone(p))'
      <4>1. Gone(p)' = Gone(p)
        BY <1>1 DEF Gone
      <4> QED
        BY <1>1, <3>2, <4>1 DEF Tells, Tale
    <3> QED
      BY <3>3, <3>4 DEF AbsenceKnown
  <2> QED
    BY <1>4, <2>1, <2>2 DEF AbsencesKnown
<1> QED
  BY <1>3, <1>7, <1>8, <1>9, <1>10, <1>11 DEF TableInv

LEMMA TableInvStep ==
    ASSUME BountiesAssumption, EscrowInv, TableInv, [Next]_vars
    PROVE  TableInv'
<1>1. CASE UNCHANGED vars
  <2>1. Reported
    BY <1>1, NobodyMoves DEF vars, world, tables, bounds, EscrowInv
  <2> QED
    BY <2>1, TableAsks
<1>2. CASE Execute
  BY <1>2, TableExecutes
<1>3. CASE Next /\ ~Execute
  <2>1. /\ Travellers \subseteq Players /\ Hunted \subseteq Players /\ Fighters \subseteq Players
        /\ TypeOK
    BY DEF BountiesAssumption, EscrowInv
  <2>2. ASSUME NEW p, p \in Travellers,
               OnClientAuthorized(p) \/ OnClientPutInServer(p) \/ OnClientDisconnect(p)
        PROVE  Reported
    BY <2>1, <2>2, AuthorizedReports, PlayingReports, DisconnectReports
  <2>3. ASSUME NEW p, p \in Hunted, PlayOn(p)
        PROVE  Reported
    BY <2>1, <2>3, PlayingReports
  <2>4. ASSUME NEW s, s \in Placers, NEW p, p \in Hunted, NEW n, n \in Stakes,
               QueueBountyPlacement(s, p, n)
        PROVE  Reported
    BY <2>1, <2>4, PlacementReports
  <2>5. ASSUME NEW a, a \in Fighters, NEW v, v \in Players, NEW dominated, NEW growing,
               growing \in Growing(a, v), Event_BountyPlayerDeath(a, v, growing, dominated)
        PROVE  Reported
    <3>1. a \in Players /\ IsSeq(growing)
      BY <2>1, <2>5, GrowingIsSeq
    <3> QED
      BY <2>1, <2>5, <3>1, DeathReports
  <2>6. ASSUME Deliver
        PROVE  Reported
    BY <2>1, <2>6, ReportReports, OverdueReports, TargetsReport, CandidateReports DEF Deliver
  <2>7. Reported
    BY <1>3, <2>1, <2>2, <2>3, <2>4, <2>5, <2>6, TickReports, MaintenanceReports, RoundReports,
        Zenon DEF Next
  <2> QED
    BY <2>7, TableAsks
<1> QED
  BY <1>1, <1>2, <1>3

LEMMA TableInvariant == Spec => [](EscrowInv /\ TableInv)
<1>1. BountiesAssumption /\ Init => EscrowInv /\ TableInv
  BY EscrowInvInit, TableInvInit
<1>2. BountiesAssumption /\ EscrowInv /\ TableInv /\ [Next]_vars => EscrowInv' /\ TableInv'
  BY EscrowInvStep, TableInvStep
<1> QED
  BY <1>1, <1>2, BountiesAssumption, PTL DEF Spec

------------------------------------------------------------------------------
(* At no time are more players hunted than the cap allows, and bounties of *)
(* one sender, or of the game on one target, are a cooldown apart, though  *)
(* both are checked against the time a request was made at and several     *)
(* requests may be under way.                                              *)
THEOREM PlacementsStayLimited == Spec => []PlacementsAreLimited
<1>1. EscrowInv /\ TableInv => PlacementsAreLimited
  <2>1. ASSUME EscrowInv, TableInv
        PROVE  TargetsAreCapped
    <3>1. clock \in Nat
      BY <2>1 DEF EscrowInv, TypeOK
    <3> QED
      BY <2>1, <3>1 DEF TableInv, Capped, Cap, TargetsAreCapped
  <2> QED
    BY <2>1 DEF TableInv, PlacementsAreLimited
<1> QED
  BY <1>1, TableInvariant, PTL

(* The bounties on one target share their progress, and once no query is   *)
(* under way, if none failed, a row carries a disconnect time if and only  *)
(* if its target is gone: marks and clears reach the table in the order of *)
(* the departures and returns they stand for.                              *)
THEOREM RowsTellTheTruth == Spec => []RowsTellOfTheirTarget
<1>1. ASSUME EscrowInv, TableInv, queue = << >>, failures = 0, NEW b \in Active(clock)
      PROVE  rows[b].disconnected > 0 <=> seat[rows[b].target] = "away"
  <2> DEFINE p == rows[b].target
  <2>1. b \in DOMAIN rows /\ p \in Players /\ IsActive(b, clock)
    BY <1>1, RowsAreTyped DEF Active, EscrowInv, TypeOK, Typed
  <2>2. PICK n \in Nat : Tells(p, << >>, n, Gone(p)) /\ Shows(p, n)
    BY <1>1, <2>1 DEF TableInv, AbsencesKnown, AbsenceKnown
  <2>3. n = Gone(p)
    <3>1. Len(<< >>) = 0
      OBVIOUS
    <3> QED
      BY <2>2, <3>1 DEF Tells
  <2>4. rows[b].disconnected = Gone(p)
    BY <2>1, <2>2, <2>3 DEF Shows, IsActive
  <2> QED
    BY <1>1, <2>1, <2>4 DEF Gone, TableInv, LeftOnTime, EscrowInv, TypeOK
<1>2. EscrowInv /\ TableInv => RowsTellOfTheirTarget
  BY <1>1 DEF RowsTellOfTheirTarget, DisconnectsAreMarked, TableInv
<1> QED
  BY <1>2, TableInvariant, PTL

(* A disconnect refunds a bounty only if its target had been gone for the  *)
(* whole grace period when the refund was decided, whatever the worker had *)
(* still to do then, unless a query failed.                                *)
THEOREM RefundsAreDue == Spec => RefundedWereAway
<1> DEFINE Due(b) ==
        failures = 0 /\ rows[b].status = "active" /\ rows'[b].status = "disconnected" =>
            /\ queue # << >> /\ Head(queue).op = "refund"
            /\ Head(queue).left[rows[b].target] > 0
            /\ Head(queue).left[rows[b].target] <= Head(queue).cutoff
<1>1. ASSUME BountiesAssumption, EscrowInv, TableInv, [Next]_vars, NEW b \in DOMAIN rows,
             failures = 0, rows[b].status = "active", rows'[b].status = "disconnected"
      PROVE  Due(b)
  <2> DEFINE req == Head(queue)
             p == rows[b].target
  <2>1. ~UNCHANGED rows
    BY <1>1
  <2>2. Execute
    BY <1>1, <2>1, OnlyTheWorkerWrites DEF tables
  <2>3. queue # << >> /\ Statement(req)
    BY <2>1, <2>2 DEF Execute, tables
  <2>4. WellFormed(req, DOMAIN rows) /\ Typed /\ IsSeq(queue)
    BY <1>1, <2>2, ExecuteKeeps DEF EscrowInv, TypeOK, Typed, Sound
  <2>5. Refunds(req)
    BY <1>1, <2>3, <2>4, StatementEffect
  <2>6. req.op = "refund" /\ IsOverdue(b, req.cutoff)
    BY <1>1, <2>5 DEF Refunds, NoneIsRefunded, Unrefunded
  <2>7. p \in Players
    BY <2>4, RowsAreTyped
  <2>8. PICK m \in Nat : Tells(p, queue, m, Gone(p)) /\ Shows(p, m)
    BY <1>1, <2>7 DEF TableInv, AbsencesKnown, AbsenceKnown
  <2>9. PICK n \in Nat : StepFor(p, req, m, n)
    BY <2>3, <2>4, <2>8, TellsFirst
  <2>10. rows[b].disconnected \in {0, m} /\ req.left[p] = m
    BY <1>1, <2>6, <2>8, <2>9 DEF Shows, StepFor
  <2> QED
    BY <2>3, <2>6, <2>10 DEF IsOverdue
<1>2. BountiesAssumption /\ EscrowInv /\ TableInv /\ [Next]_vars
        => [\A b \in DOMAIN rows : Due(b)]_vars
  BY <1>1
<1> QED
  BY <1>2, TableInvariant, BountiesAssumption, PTL DEF Spec, RefundedWereAway
=============================================================================
