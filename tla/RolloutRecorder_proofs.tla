----------------------- MODULE RolloutRecorder_proofs -----------------------
(***************************************************************************)
(* RolloutRecorder for any number of commands, failures and crashes: the   *)
(* file stays in order, each failure damages one line at most, and the     *)
(* recorder implements DurableLog.                                         *)
(***************************************************************************)
EXTENDS RolloutRecorder, SequenceTheorems, FiniteSetTheorems, TLAPS

Command == [op : Ops, n : Cmds]
LineType == [item : 0 .. MaxCmds, state : LineStates]
Lines == Seq(LineType)
Bad(ls) == {i \in 1 .. Len(ls) : ls[i].state = "bad"}

(* Only the last line may lack its newline.                                *)
OnlyEndBroken(ls) == \A i \in 1 .. Len(ls) - 1 : ls[i].state \in {"whole", "bad"}

(* From the file over the buffer and the channel to the next call, numbers *)
(* grow.                                                                   *)
Increasing(s) == \A i, j \in 1 .. Len(s) : i < j => s[i] < s[j]
Growing(st, pd, w, q, nx) ==
    /\ Increasing(st)
    /\ Increasing(pd)
    /\ \A i, j \in 1 .. Len(q) : i < j => q[i].n < q[j].n
    /\ \A i \in 1 .. Len(st) : \A k \in w + 1 .. Len(pd) : st[i] < pd[k]
    /\ \A i \in 1 .. Len(st) : \A k \in 1 .. Len(q) : st[i] < q[k].n
    /\ \A i \in 1 .. Len(pd) : \A k \in 1 .. Len(q) : pd[i] < q[k].n
    /\ \A i \in 1 .. Len(st) : st[i] < nx
    /\ \A i \in 1 .. Len(pd) : pd[i] < nx
    /\ \A i \in 1 .. Len(q) : q[i].n < nx
Ascending == Growing(Stored, pending, written, queue, next)

(* The meta line is written first, items only after it; a command that is  *)
(* worked on came before those in the channel; a stopped writer has none.  *)
Working == pc \in {"open", "meta", "items"}
Control ==
    /\ meta => Stored = <<>>
    /\ pc = "items" => ~meta
    /\ pc # "items" => written = 0
    /\ pc = "stopped" => queue = <<>>
    /\ Working => /\ cmd \in Command /\ cmd.n < next
                  /\ \A k \in 1 .. Len(queue) : cmd.n < queue[k].n

RecorderInv ==
    /\ TypeOK
    /\ OnlyEndBroken(lines)
    /\ Ascending
    /\ Control
    /\ promised \subseteq Range(Stored)

(* A line without its end stands for a failure that may still damage one.  *)
DamageInv ==
    Cardinality(Bad(lines)) + (IF Broken(lines) THEN 1 ELSE 0) <= faults + crashes

-----------------------------------------------------------------------------
(* The file and what write_line does to it.                                *)
LEMMA LineTypes ==
    ASSUME NEW ls \in Lines
    PROVE  /\ Len(ls) \in Nat /\ (Broken(ls) => Len(ls) > 0)
           /\ \A i \in 1 .. Len(ls) :
                 /\ ls[i] \in LineType /\ ls[i].item \in 0 .. MaxCmds
                 /\ ls[i].state \in {"whole", "bad", "bare", "part"}
<1>1. \A i \in 1 .. Len(ls) : ls[i] \in LineType
  BY DEF Lines
<1>2. Len(ls) \in Nat /\ (Broken(ls) => Len(ls) > 0)
  BY EmptySeq DEF Lines, Broken
<1>. QED
  BY <1>1, <1>2 DEF LineType, LineStates

(* A line takes the place of a broken end, or comes behind a file without. *)
LEMMA Placed ==
    ASSUME NEW ls \in Lines, OnlyEndBroken(ls), NEW l \in LineType
    PROVE  LET n == IF Broken(ls) THEN Len(ls) - 1 ELSE Len(ls)
               ps == IF Broken(ls) THEN Append(SubSeq(ls, 1, Len(ls) - 1), l) ELSE Append(ls, l)
           IN  /\ n \in Nat /\ n <= Len(ls)
               /\ ps \in Lines /\ Len(ps) = n + 1
               /\ \A i \in 1 .. n : ps[i] = ls[i] /\ ls[i].state \in {"whole", "bad"}
               /\ ps[n + 1] = l
<1>0. Len(ls) \in Nat /\ (Broken(ls) => Len(ls) > 0)
  BY LineTypes
<1>1. CASE Broken(ls)
  <2>1. \A i \in 1 .. Len(ls) - 1 : ls[i] \in LineType
    BY <1>0, LineTypes
  <2>2. /\ SubSeq(ls, 1, Len(ls) - 1) \in Seq(LineType)
        /\ Len(SubSeq(ls, 1, Len(ls) - 1)) = Len(ls) - 1
        /\ \A i \in 1 .. Len(ls) - 1 : SubSeq(ls, 1, Len(ls) - 1)[i] = ls[i]
    <3>. DEFINE m == Len(ls) - 1
    <3>1. m \in Nat /\ 1 \in Int /\ m \in Int
      BY <1>0, <1>1
    <3>. HIDE DEF m
    <3>2. \A i \in 1 .. m : ls[i] \in LineType
      BY <2>1 DEF m
    <3>3. /\ SubSeq(ls, 1, m) \in Seq(LineType)
          /\ Len(SubSeq(ls, 1, m)) = IF 1 <= m THEN m - 1 + 1 ELSE 0
          /\ \A i \in 1 .. m - 1 + 1 : SubSeq(ls, 1, m)[i] = ls[1 + i - 1]
      BY <3>1, <3>2, SubSeqProperties
    <3>4. Len(SubSeq(ls, 1, m)) = m /\ \A i \in 1 .. m : SubSeq(ls, 1, m)[i] = ls[i]
      BY <3>1, <3>3
    <3>. QED
      BY <3>3, <3>4 DEF m
  <2>. QED
    BY <1>0, <1>1, <2>2, AppendProperties DEF Lines, OnlyEndBroken
<1>2. CASE ~Broken(ls)
  <2>1. \A i \in 1 .. Len(ls) : ls[i].state \in {"whole", "bad"}
    <3>1. ls # <<>> => ls[Len(ls)].state \notin {"bare", "part"}
      BY <1>2 DEF Broken
    <3>2. \A i \in 1 .. Len(ls) : ls # <<>> /\ (i = Len(ls) \/ i \in 1 .. Len(ls) - 1)
      BY <1>0, EmptySeq DEF Lines
    <3>. QED
      BY <3>1, <3>2, LineTypes DEF OnlyEndBroken
  <2>. QED
    BY <1>0, <1>2, <2>1, AppendProperties DEF Lines
<1>. QED
  BY <1>1, <1>2

LEMMA EndedItems ==
    ASSUME NEW ls \in Lines
    PROVE  /\ ItemsOf(Ended(ls)) \in Seq(0 .. MaxCmds)
           /\ Len(ItemsOf(Ended(ls))) = IF Broken(ls) THEN Len(ls) - 1 ELSE Len(ls)
           /\ \A i \in 1 .. Len(ItemsOf(Ended(ls))) : ItemsOf(Ended(ls))[i] = ls[i].item
<1>. DEFINE n == IF Broken(ls) THEN Len(ls) - 1 ELSE Len(ls)
<1>1. Len(ls) \in Nat /\ (Broken(ls) => Len(ls) > 0)
  BY LineTypes
<1>2. n \in Nat /\ n <= Len(ls)
  BY <1>1
<1>3. /\ Ended(ls) \in Lines /\ Len(Ended(ls)) = n
      /\ \A i \in 1 .. n : Ended(ls)[i] = ls[i]
  BY <1>1, <1>2 DEF Ended, Lines
<1>. HIDE DEF n
<1>4. ItemsOf(Ended(ls)) = [i \in 1 .. n |-> ls[i].item]
  BY <1>2, <1>3 DEF ItemsOf
<1>5. \A i \in 1 .. n : ls[i].item \in 0 .. MaxCmds
  <2>1. \A i \in 1 .. Len(ls) : ls[i] \in LineType
    BY DEF Lines
  <2>. QED
    BY <1>1, <1>2, <2>1 DEF LineType
<1>6. [i \in 1 .. n |-> ls[i].item] \in Seq(0 .. MaxCmds)
  BY <1>2, <1>5, IsASeq
<1>7. Len([i \in 1 .. n |-> ls[i].item]) = n
  BY <1>2, <1>6, LenProperties
<1>. QED
  BY <1>2, <1>4, <1>6, <1>7 DEF n

(* A whole line ends the file with its item.                               *)
LEMMA PutWhole ==
    ASSUME NEW ls \in Lines, OnlyEndBroken(ls), NEW x \in 0 .. MaxCmds
    PROVE  /\ Put(ls, x, "whole") \in Lines
           /\ OnlyEndBroken(Put(ls, x, "whole"))
           /\ ~Broken(Put(ls, x, "whole"))
           /\ ItemsOf(Ended(Put(ls, x, "whole"))) = Append(ItemsOf(Ended(ls)), x)
<1>. DEFINE ps == Put(ls, x, "whole")
            n == IF Broken(ls) THEN Len(ls) - 1 ELSE Len(ls)
<1>1. Len(ls) \in Nat /\ (Broken(ls) => Len(ls) > 0)
  BY LineTypes
<1>2. n \in Nat /\ n <= Len(ls)
  BY <1>1
<1>3. /\ ps \in Lines /\ Len(ps) = n + 1
      /\ \A i \in 1 .. n : ps[i] = ls[i] /\ ls[i].state \in {"whole", "bad"}
      /\ ps[n + 1].item = x /\ ps[n + 1].state \in {"whole", "bad"}
  <2>1. Line(x, "bad") \in LineType /\ Line(x, "whole") \in LineType
    BY DEF Line, LineType, LineStates
  <2>2. ps = IF Broken(ls) THEN Append(SubSeq(ls, 1, Len(ls) - 1), Line(x, "bad"))
                           ELSE Append(ls, Line(x, "whole"))
    BY DEF Put
  <2>. HIDE DEF ps
  <2>3. CASE Broken(ls)
    BY <2>1, <2>2, <2>3, Placed DEF Line
  <2>4. CASE ~Broken(ls)
    BY <2>1, <2>2, <2>4, Placed DEF Line
  <2>. QED
    BY <2>3, <2>4
<1>. HIDE DEF ps
<1>4. ~Broken(ps)
  BY <1>2, <1>3 DEF Broken
<1>6. OnlyEndBroken(ps)
  BY <1>2, <1>3 DEF OnlyEndBroken
<1>. HIDE DEF n
<1>7. ItemsOf(Ended(ps)) = Append(ItemsOf(Ended(ls)), x)
  <2>1. /\ ItemsOf(Ended(ps)) \in Seq(0 .. MaxCmds) /\ Len(ItemsOf(Ended(ps))) = n + 1
        /\ \A i \in 1 .. n + 1 : ItemsOf(Ended(ps))[i] = ps[i].item
    BY <1>3, <1>4, EndedItems
  <2>2. /\ ItemsOf(Ended(ls)) \in Seq(0 .. MaxCmds) /\ Len(ItemsOf(Ended(ls))) = n
        /\ \A i \in 1 .. n : ItemsOf(Ended(ls))[i] = ls[i].item
    BY EndedItems DEF n
  <2>3. /\ Append(ItemsOf(Ended(ls)), x) \in Seq(0 .. MaxCmds)
        /\ Len(Append(ItemsOf(Ended(ls)), x)) = n + 1
        /\ \A i \in 1 .. n : Append(ItemsOf(Ended(ls)), x)[i] = ls[i].item
        /\ Append(ItemsOf(Ended(ls)), x)[n + 1] = x
    BY <1>2, <2>2, AppendProperties
  <2>4. \A i \in 1 .. n + 1 : ItemsOf(Ended(ps))[i] = Append(ItemsOf(Ended(ls)), x)[i]
    BY <1>2, <1>3, <2>1, <2>3
  <2>. QED
    BY <2>1, <2>3, <2>4, SeqEqual
<1>. QED
  BY <1>3, <1>4, <1>6, <1>7 DEF ps

(* What a failed write leaves is no entry.                                 *)
LEMMA PutLeftover ==
    ASSUME NEW ls \in Lines, OnlyEndBroken(ls), NEW x \in 0 .. MaxCmds,
           NEW o \in {"none", "part", "bare"}
    PROVE  /\ Put(ls, x, o) \in Lines
           /\ OnlyEndBroken(Put(ls, x, o))
           /\ ItemsOf(Ended(Put(ls, x, o))) = ItemsOf(Ended(ls))
<1>1. CASE o = "none"
  BY <1>1 DEF Put
<1>2. CASE o # "none"
  <2>. DEFINE ps == Put(ls, x, o)
              n == IF Broken(ls) THEN Len(ls) - 1 ELSE Len(ls)
  <2>1. Len(ls) \in Nat /\ (Broken(ls) => Len(ls) > 0)
    BY LineTypes
  <2>2. n \in Nat /\ n <= Len(ls)
    BY <2>1
  <2>3. /\ ps \in Lines /\ Len(ps) = n + 1
        /\ \A i \in 1 .. n : ps[i] = ls[i] /\ ls[i].state \in {"whole", "bad"}
        /\ ps[n + 1].state \in {"part", "bare"}
    <3>1. Line(x, "part") \in LineType /\ Line(x, o) \in LineType
      BY <1>2 DEF Line, LineType, LineStates
    <3>2. ps = IF Broken(ls) THEN Append(SubSeq(ls, 1, Len(ls) - 1), Line(x, "part"))
                             ELSE Append(ls, Line(x, o))
      BY <1>2 DEF Put
    <3>. HIDE DEF ps
    <3>3. CASE Broken(ls)
      <4>1. ps = Append(SubSeq(ls, 1, Len(ls) - 1), Line(x, "part"))
        BY <3>2, <3>3
      <4>2. Line(x, "part").state = "part"
        BY DEF Line
      <4>. QED
        BY <3>1, <3>3, <4>1, <4>2, Placed
    <3>4. CASE ~Broken(ls)
      BY <1>2, <3>1, <3>2, <3>4, Placed DEF Line
    <3>. QED
      BY <3>3, <3>4
  <2>. HIDE DEF ps
  <2>4. Broken(ps)
    BY <2>2, <2>3 DEF Broken
  <2>6. OnlyEndBroken(ps)
    BY <2>2, <2>3 DEF OnlyEndBroken
  <2>. HIDE DEF n
  <2>7. /\ ItemsOf(Ended(ps)) \in Seq(0 .. MaxCmds) /\ Len(ItemsOf(Ended(ps))) = n
        /\ \A i \in 1 .. n : ItemsOf(Ended(ps))[i] = ps[i].item
    BY <2>2, <2>3, <2>4, EndedItems
  <2>8. /\ ItemsOf(Ended(ls)) \in Seq(0 .. MaxCmds) /\ Len(ItemsOf(Ended(ls))) = n
        /\ \A i \in 1 .. n : ItemsOf(Ended(ls))[i] = ls[i].item
    BY EndedItems DEF n
  <2>9. ItemsOf(Ended(ps)) = ItemsOf(Ended(ls))
    BY <2>3, <2>7, <2>8, SeqEqual
  <2>. QED
    BY <2>3, <2>6, <2>9 DEF ps
<1>. QED
  BY <1>1, <1>2

-----------------------------------------------------------------------------
(* The state.                                                              *)
LEMMA StateTypes ==
    ASSUME RecorderInv
    PROVE  /\ lines \in Lines
           /\ Stored \in Seq(0 .. MaxCmds) /\ Len(Stored) \in Nat
           /\ \A i \in 1 .. Len(Stored) : Stored[i] \in Nat
           /\ queue \in Seq(Command) /\ Len(queue) \in Nat
           /\ \A i \in 1 .. Len(queue) : queue[i] \in Command /\ queue[i].n \in Nat \ {0}
           /\ pending \in Seq(Cmds) /\ Len(pending) \in Nat
           /\ \A i \in 1 .. Len(pending) : pending[i] \in Cmds /\ pending[i] \in Nat \ {0}
           /\ written \in Nat /\ written <= Len(pending)
           /\ next \in Nat \ {0} /\ Cmds \subseteq 0 .. MaxCmds
<1>1. lines \in Lines
  BY DEF RecorderInv, TypeOK, Lines, LineType
<1>2. Stored \in Seq(0 .. MaxCmds)
  BY <1>1, EndedItems DEF Stored
<1>3. Len(Stored) \in Nat /\ \A i \in 1 .. Len(Stored) : Stored[i] \in 0 .. MaxCmds
  BY <1>2, LenProperties, ElementOfSeq
<1>4. queue \in Seq(Command) /\ Len(queue) \in Nat
  BY DEF RecorderInv, TypeOK, Command
<1>5. \A i \in 1 .. Len(queue) : queue[i] \in Command
  BY <1>4
<1>6. \A i \in 1 .. Len(queue) : queue[i].n \in Nat \ {0}
  BY <1>5, RecorderAssumption DEF Command, Cmds
<1>7. pending \in Seq(Cmds) /\ Len(pending) \in Nat /\ written \in 0 .. Len(pending)
  BY DEF RecorderInv, TypeOK
<1>8. \A i \in 1 .. Len(pending) : pending[i] \in Cmds
  BY <1>7
<1>9. Cmds \subseteq 0 .. MaxCmds /\ Cmds \subseteq Nat \ {0} /\ 0 .. MaxCmds \subseteq Nat
  BY RecorderAssumption DEF Cmds
<1>10. next \in Nat \ {0}
  BY RecorderAssumption DEF RecorderInv, TypeOK
<1>11. \A i \in 1 .. Len(Stored) : Stored[i] \in Nat
  BY <1>3, <1>9
<1>12. \A i \in 1 .. Len(pending) : pending[i] \in Nat \ {0}
  BY <1>8, <1>9
<1>13. written \in Nat /\ written <= Len(pending)
  BY <1>7
<1>. QED
  BY <1>1, <1>2, <1>3, <1>4, <1>5, <1>6, <1>7, <1>8, <1>9, <1>10, <1>11, <1>12, <1>13

LEMMA AcceptedItems ==
    ASSUME NEW x
    PROVE  x \in Accepted <=>
             \/ x \in Range(Stored)
             \/ meta /\ x = 0
             \/ \E i \in written + 1 .. Len(pending) : x = pending[i]
             \/ \E i \in 1 .. Len(queue) : queue[i].op = "add" /\ x = queue[i].n
  BY DEF Accepted, Unwritten, Queued, IsAdd

LEMMA RangeOf ==
    ASSUME NEW S, NEW q \in Seq(S)
    PROVE  \A x : x \in Range(q) <=> \E i \in 1 .. Len(q) : x = q[i]
<1>1. DOMAIN q = 1 .. Len(q)
  BY LenProperties
<1>. QED
  BY <1>1 DEF Range

LEMMA RangeGrows ==
    ASSUME NEW S, NEW q \in Seq(S), NEW x \in S
    PROVE  Range(Append(q, x)) = Range(q) \cup {x}
<1>. DEFINE a == Append(q, x)
<1>1. /\ a \in Seq(S) /\ Len(a) = Len(q) + 1 /\ Len(q) \in Nat
      /\ \A i \in 1 .. Len(q) : a[i] = q[i]
      /\ a[Len(q) + 1] = x
  BY AppendProperties, LenProperties
<1>. HIDE DEF a
<1>2. \A y : y \in Range(a) <=> \E i \in 1 .. Len(q) + 1 : y = a[i]
  BY <1>1, RangeOf
<1>3. \A y : y \in Range(q) <=> \E i \in 1 .. Len(q) : y = q[i]
  BY RangeOf
<1>4. \A y : (\E i \in 1 .. Len(q) + 1 : y = a[i])
               <=> (\E i \in 1 .. Len(q) : y = q[i]) \/ y = x
  <2>1. \A i \in 1 .. Len(q) + 1 : i \in 1 .. Len(q) \/ i = Len(q) + 1
    BY <1>1
  <2>2. \A i \in 1 .. Len(q) : i \in 1 .. Len(q) + 1
    BY <1>1
  <2>3. Len(q) + 1 \in 1 .. Len(q) + 1
    BY <1>1
  <2>. QED
    BY <1>1, <2>1, <2>2, <2>3, Zenon
<1>. QED
  BY <1>2, <1>3, <1>4 DEF a

LEMMA QueueTail ==
    ASSUME RecorderInv, queue # <<>>
    PROVE  /\ Head(queue) = queue[1] /\ 1 \in 1 .. Len(queue)
           /\ Tail(queue) \in Seq(Command) /\ Len(Tail(queue)) = Len(queue) - 1
           /\ \A i \in 1 .. Len(queue) - 1 : Tail(queue)[i] = queue[i + 1]
<1>1. queue \in Seq(Command) /\ Len(queue) \in Nat
  BY StateTypes
<1>2. Len(queue) > 0
  BY <1>1, EmptySeq
<1>. QED
  BY <1>1, <1>2, HeadTailProperties

-----------------------------------------------------------------------------
(* How commands and items move along without losing their order.           *)
LEMMA QueueNumbers ==
    ASSUME NEW q \in Seq(Command)
    PROVE  \A i \in 1 .. Len(q) : q[i] \in Command /\ q[i].n \in Nat /\ q[i].n > 0
<1>1. \A i \in 1 .. Len(q) : q[i] \in Command
  BY ElementOfSeq
<1>2. \A c \in Command : c.n \in Nat /\ c.n > 0
  BY RecorderAssumption DEF Command, Cmds
<1>. QED
  BY <1>1, <1>2

LEMMA GrowingNext ==
    ASSUME NEW st \in Seq(Nat), NEW pd \in Seq(Nat), NEW w \in Nat, NEW q \in Seq(Command),
           NEW nx \in Nat, Growing(st, pd, w, q, nx)
    PROVE  Growing(st, pd, w, q, nx + 1)
<1>0. \A x \in Nat : x < nx => x < nx + 1
  OBVIOUS
<1>1. \A i \in 1 .. Len(st) : st[i] < nx + 1
  BY <1>0, ElementOfSeq DEF Growing
<1>2. \A i \in 1 .. Len(pd) : pd[i] < nx + 1
  BY <1>0, ElementOfSeq DEF Growing
<1>3. \A i \in 1 .. Len(q) : q[i].n < nx + 1
  BY <1>0, QueueNumbers DEF Growing
<1>. QED
  BY <1>1, <1>2, <1>3 DEF Growing

LEMMA GrowingSend ==
    ASSUME NEW st \in Seq(Nat), NEW pd \in Seq(Nat), NEW w \in Nat, NEW q \in Seq(Command),
           NEW nx \in Nat, Growing(st, pd, w, q, nx), NEW c \in Command, c.n = nx
    PROVE  Growing(st, pd, w, Append(q, c), nx + 1)
<1>. DEFINE a == Append(q, c)
<1>1. /\ a \in Seq(Command) /\ Len(q) \in Nat /\ Len(a) = Len(q) + 1
      /\ \A i \in 1 .. Len(q) : a[i] = q[i]
      /\ a[Len(q) + 1] = c
  BY AppendProperties, LenProperties
<1>. HIDE DEF a
<1>2. \A i \in 1 .. Len(a) : (i \in 1 .. Len(q) /\ a[i].n = q[i].n) \/ (i = Len(q) + 1 /\ a[i].n = nx)
  BY <1>1
<1>3. /\ \A i \in 1 .. Len(q) : q[i].n < nx
      /\ \A i \in 1 .. Len(st) : st[i] < nx
      /\ \A i \in 1 .. Len(pd) : pd[i] < nx
      /\ \A i \in 1 .. Len(st) : \A k \in 1 .. Len(q) : st[i] < q[k].n
      /\ \A i \in 1 .. Len(pd) : \A k \in 1 .. Len(q) : pd[i] < q[k].n
      /\ \A i, j \in 1 .. Len(q) : i < j => q[i].n < q[j].n
  BY DEF Growing
<1>4. Growing(st, pd, w, q, nx + 1)
  BY GrowingNext
<1>5. ASSUME NEW i \in 1 .. Len(a), NEW j \in 1 .. Len(a), i < j PROVE a[i].n < a[j].n
  <2>1. i \in 1 .. Len(q) /\ a[i].n = q[i].n
    BY <1>1, <1>2, <1>5
  <2>. QED
    BY <1>2, <1>3, <1>5, <2>1
<1>6. \A i \in 1 .. Len(st) : \A k \in 1 .. Len(a) : st[i] < a[k].n
  BY <1>2, <1>3
<1>7. \A i \in 1 .. Len(pd) : \A k \in 1 .. Len(a) : pd[i] < a[k].n
  BY <1>2, <1>3
<1>8. \A i \in 1 .. Len(a) : a[i].n < nx + 1
  <2>1. \A i \in 1 .. Len(q) : q[i].n < nx + 1
    BY <1>4 DEF Growing
  <2>. QED
    BY <1>2, <2>1
<1>. QED
  BY <1>4, <1>5, <1>6, <1>7, <1>8 DEF Growing, a

(* A command leaves the channel.                                           *)
LEMMA GrowingTake ==
    ASSUME NEW st \in Seq(Nat), NEW pd \in Seq(Nat), NEW w \in Nat, NEW q \in Seq(Command),
           NEW nx \in Nat, Growing(st, pd, w, q, nx), q # <<>>
    PROVE  /\ Growing(st, pd, w, Tail(q), nx)
           /\ \A k \in 1 .. Len(Tail(q)) : Head(q).n < Tail(q)[k].n
           /\ Head(q).n < nx
<1>. DEFINE t == Tail(q)
<1>1. /\ t \in Seq(Command) /\ Len(q) \in Nat /\ Len(t) = Len(q) - 1
      /\ \A i \in 1 .. Len(t) : t[i] = q[i + 1]
      /\ Head(q) = q[1] /\ 1 \in 1 .. Len(q)
  <2>1. Len(q) \in Nat /\ Len(q) > 0
    BY LenProperties, EmptySeq
  <2>. QED
    BY <2>1, HeadTailProperties
<1>. HIDE DEF t
<1>2. \A i \in 1 .. Len(t) : i + 1 \in 1 .. Len(q) /\ t[i].n = q[i + 1].n
  BY <1>1
<1>3. /\ \A i, j \in 1 .. Len(q) : i < j => q[i].n < q[j].n
      /\ \A i \in 1 .. Len(st) : \A k \in 1 .. Len(q) : st[i] < q[k].n
      /\ \A i \in 1 .. Len(pd) : \A k \in 1 .. Len(q) : pd[i] < q[k].n
      /\ \A i \in 1 .. Len(q) : q[i].n < nx
  BY DEF Growing
<1>4. ASSUME NEW i \in 1 .. Len(t), NEW j \in 1 .. Len(t), i < j PROVE t[i].n < t[j].n
  <2>1. i + 1 < j + 1
    BY <1>1, <1>4
  <2>. QED
    BY <1>2, <1>3, <2>1
<1>5. /\ \A i \in 1 .. Len(st) : \A k \in 1 .. Len(t) : st[i] < t[k].n
      /\ \A i \in 1 .. Len(pd) : \A k \in 1 .. Len(t) : pd[i] < t[k].n
      /\ \A i \in 1 .. Len(t) : t[i].n < nx
  BY <1>2, <1>3
<1>6. Growing(st, pd, w, t, nx)
  BY <1>4, <1>5 DEF Growing
<1>7. \A k \in 1 .. Len(t) : q[1].n < t[k].n
  <2>. SUFFICES ASSUME NEW k \in 1 .. Len(t) PROVE q[1].n < q[k + 1].n
    BY <1>2
  <2>1. k + 1 \in 1 .. Len(q) /\ 1 < k + 1
    BY <1>1
  <2>. QED
    BY <1>1, <1>3, <2>1
<1>. QED
  BY <1>1, <1>3, <1>6, <1>7 DEF t

(* An item joins the buffer from the channel.                              *)
LEMMA GrowingBuffer ==
    ASSUME NEW st \in Seq(Nat), NEW pd \in Seq(Nat), NEW w \in Nat, NEW q \in Seq(Command),
           NEW nx \in Nat, Growing(st, pd, w, q, nx), q # <<>>
    PROVE  Growing(st, Append(pd, Head(q).n), w, Tail(q), nx)
<1>. DEFINE x == Head(q).n
            a == Append(pd, x)
            t == Tail(q)
<1>0. Len(q) \in Nat /\ Len(q) > 0 /\ q[1] = Head(q) /\ q[1] \in Command /\ 1 \in 1 .. Len(q)
  <2>1. Len(q) \in Nat /\ Len(q) > 0
    BY LenProperties, EmptySeq
  <2>. QED
    BY <2>1, HeadTailProperties
<1>1. x \in Nat
  BY <1>0, RecorderAssumption DEF Command, Cmds
<1>2. /\ \A i \in 1 .. Len(pd) : pd[i] < x
      /\ \A i \in 1 .. Len(st) : st[i] < x
      /\ Increasing(pd)
  BY <1>0 DEF Growing
<1>3. Growing(st, pd, w, t, nx) /\ x < nx /\ \A k \in 1 .. Len(t) : x < t[k].n
  BY GrowingTake
<1>. HIDE DEF x
<1>4. /\ a \in Seq(Nat) /\ Len(pd) \in Nat /\ Len(a) = Len(pd) + 1
      /\ \A i \in 1 .. Len(pd) : a[i] = pd[i]
      /\ a[Len(pd) + 1] = x
  BY <1>1, AppendProperties, LenProperties
<1>. HIDE DEF a, t
<1>5. \A i \in 1 .. Len(a) : (i \in 1 .. Len(pd) /\ a[i] = pd[i]) \/ (i = Len(pd) + 1 /\ a[i] = x)
  BY <1>4
<1>6. Increasing(a)
  <2>. SUFFICES ASSUME NEW i \in 1 .. Len(a), NEW j \in 1 .. Len(a), i < j PROVE a[i] < a[j]
    BY DEF Increasing
  <2>1. i \in 1 .. Len(pd) /\ a[i] = pd[i]
    BY <1>4, <1>5
  <2>. QED
    BY <1>2, <1>5, <2>1 DEF Increasing
<1>7. ASSUME NEW i \in 1 .. Len(st), NEW k \in w + 1 .. Len(a) PROVE st[i] < a[k]
  <2>1. k \in 1 .. Len(a)
    BY <1>4
  <2>2. k \in 1 .. Len(pd) => k \in w + 1 .. Len(pd)
    BY <1>4
  <2>3. \A m \in w + 1 .. Len(pd) : st[i] < pd[m]
    BY DEF Growing
  <2>. QED
    BY <1>2, <1>5, <2>1, <2>2, <2>3
<1>8. /\ \A i \in 1 .. Len(a) : \A k \in 1 .. Len(t) : a[i] < t[k].n
      /\ \A i \in 1 .. Len(a) : a[i] < nx
  BY <1>3, <1>5 DEF Growing
<1>. QED
  BY <1>3, <1>6, <1>7, <1>8 DEF Growing, x, a, t

(* The oldest unwritten item of the buffer goes to the file.               *)
LEMMA GrowingWrite ==
    ASSUME NEW st \in Seq(Nat), NEW pd \in Seq(Nat), NEW w \in Nat, NEW q \in Seq(Command),
           NEW nx \in Nat, Growing(st, pd, w, q, nx), w < Len(pd)
    PROVE  Growing(Append(st, pd[w + 1]), pd, w + 1, q, nx)
<1>. DEFINE x == pd[w + 1]
            a == Append(st, x)
<1>1. w + 1 \in 1 .. Len(pd) /\ w + 1 \in w + 1 .. Len(pd) /\ Len(pd) \in Nat
  BY LenProperties
<1>2. x \in Nat
  BY <1>1
<1>3. /\ \A i \in 1 .. Len(st) : st[i] < x
      /\ \A k \in 1 .. Len(q) : x < q[k].n
      /\ x < nx
  BY <1>1 DEF Growing
<1>4. \A k \in (w + 1) + 1 .. Len(pd) : x < pd[k]
  <2>. SUFFICES ASSUME NEW k \in (w + 1) + 1 .. Len(pd) PROVE pd[w + 1] < pd[k]
    OBVIOUS
  <2>1. k \in 1 .. Len(pd) /\ w + 1 < k
    BY <1>1
  <2>. QED
    BY <1>1, <2>1 DEF Growing, Increasing
<1>. HIDE DEF x
<1>5. /\ a \in Seq(Nat) /\ Len(st) \in Nat /\ Len(a) = Len(st) + 1
      /\ \A i \in 1 .. Len(st) : a[i] = st[i]
      /\ a[Len(st) + 1] = x
  BY <1>2, AppendProperties, LenProperties
<1>. HIDE DEF a
<1>6. \A i \in 1 .. Len(a) : (i \in 1 .. Len(st) /\ a[i] = st[i]) \/ (i = Len(st) + 1 /\ a[i] = x)
  BY <1>5
<1>7. Increasing(a)
  <2>. SUFFICES ASSUME NEW i \in 1 .. Len(a), NEW j \in 1 .. Len(a), i < j PROVE a[i] < a[j]
    BY DEF Increasing
  <2>1. i \in 1 .. Len(st) /\ a[i] = st[i]
    BY <1>5, <1>6
  <2>2. \A m \in 1 .. Len(st) : i < m => st[i] < st[m]
    BY <2>1 DEF Growing, Increasing
  <2>. QED
    BY <1>3, <1>6, <2>1, <2>2
<1>8. ASSUME NEW i \in 1 .. Len(a), NEW k \in (w + 1) + 1 .. Len(pd) PROVE a[i] < pd[k]
  <2>1. k \in w + 1 .. Len(pd)
    BY <1>1
  <2>2. \A m \in 1 .. Len(st) : st[m] < pd[k]
    BY <2>1 DEF Growing
  <2>. QED
    BY <1>4, <1>6, <2>2
<1>9. /\ \A i \in 1 .. Len(a) : \A k \in 1 .. Len(q) : a[i] < q[k].n
      /\ \A i \in 1 .. Len(a) : a[i] < nx
  BY <1>3, <1>6 DEF Growing
<1>. QED
  BY <1>7, <1>8, <1>9 DEF Growing, a, x

(* The meta line is the first.                                             *)
LEMMA GrowingMeta ==
    ASSUME NEW st \in Seq(Nat), st = <<>>, NEW pd \in Seq(Nat \ {0}), NEW w \in Nat,
           NEW q \in Seq(Command), NEW nx \in Nat \ {0}, Growing(st, pd, w, q, nx)
    PROVE  Growing(Append(st, 0), pd, w, q, nx)
<1>. DEFINE a == Append(st, 0)
<1>1. Len(a) = 1 /\ a[1] = 0 /\ Len(pd) \in Nat /\ Len(q) \in Nat
  BY AppendProperties, LenProperties
<1>. HIDE DEF a
<1>2. /\ \A k \in 1 .. Len(pd) : 0 < pd[k]
      /\ \A k \in 1 .. Len(q) : 0 < q[k].n
  BY QueueNumbers
<1>3. \A i \in 1 .. Len(a) : a[i] = 0 /\ i = 1
  BY <1>1
<1>4. Increasing(a)
  BY <1>3 DEF Increasing
<1>5. \A k \in w + 1 .. Len(pd) : k \in 1 .. Len(pd)
  BY <1>1
<1>6. \A i \in 1 .. Len(a) : \A k \in w + 1 .. Len(pd) : a[i] < pd[k]
  BY <1>2, <1>3, <1>5
<1>7. /\ \A i \in 1 .. Len(a) : \A k \in 1 .. Len(q) : a[i] < q[k].n
      /\ \A i \in 1 .. Len(a) : a[i] < nx
  BY <1>2, <1>3
<1>. QED
  BY <1>4, <1>6, <1>7 DEF Growing, a

(* What is written leaves the buffer.                                      *)
LEMMA GrowingDrain ==
    ASSUME NEW st \in Seq(Nat), NEW pd \in Seq(Nat), NEW w \in Nat, NEW q \in Seq(Command),
           NEW nx \in Nat, Growing(st, pd, w, q, nx), w <= Len(pd)
    PROVE  LET d == SubSeq(pd, w + 1, Len(pd))
           IN  /\ Len(d) = Len(pd) - w
               /\ \A i \in 1 .. Len(d) : i + w \in w + 1 .. Len(pd) /\ d[i] = pd[i + w]
               /\ Growing(st, d, 0, q, nx)
<1>. DEFINE d == SubSeq(pd, w + 1, Len(pd))
<1>1. /\ Len(pd) \in Nat /\ Len(d) = Len(pd) - w
      /\ \A i \in 1 .. Len(d) : i + w \in w + 1 .. Len(pd) /\ d[i] = pd[i + w]
  <2>1. Len(pd) \in Nat /\ w + 1 \in Int
    BY LenProperties
  <2>2. \A i \in w + 1 .. Len(pd) : pd[i] \in Nat
    BY <2>1
  <2>3. /\ Len(d) = IF w + 1 <= Len(pd) THEN Len(pd) - (w + 1) + 1 ELSE 0
        /\ \A i \in 1 .. Len(pd) - (w + 1) + 1 : d[i] = pd[w + 1 + i - 1]
    BY <2>1, <2>2, SubSeqProperties
  <2>. HIDE DEF d
  <2>4. Len(d) = Len(pd) - w
    BY <2>1, <2>3
  <2>5. \A i \in 1 .. Len(d) : i + w \in w + 1 .. Len(pd) /\ i \in 1 .. Len(pd) - (w + 1) + 1
                                /\ w + 1 + i - 1 = i + w
    BY <2>1, <2>4
  <2>6. \A i \in 1 .. Len(d) : d[i] = pd[i + w]
    BY <2>3, <2>5
  <2>. QED
    BY <2>1, <2>4, <2>5, <2>6
<1>. HIDE DEF d
<1>2. \A i \in 1 .. Len(d) : i + w \in 1 .. Len(pd)
  BY <1>1
<1>3. Increasing(d)
  <2>. SUFFICES ASSUME NEW i \in 1 .. Len(d), NEW j \in 1 .. Len(d), i < j PROVE d[i] < d[j]
    BY DEF Increasing
  <2>1. i + w < j + w
    BY <1>1
  <2>. QED
    BY <1>1, <1>2, <2>1 DEF Growing, Increasing
<1>4. \A i \in 1 .. Len(st) : \A k \in 0 + 1 .. Len(d) : st[i] < d[k]
  <2>1. \A i \in 1 .. Len(st) : \A k \in w + 1 .. Len(pd) : st[i] < pd[k]
    BY DEF Growing
  <2>2. \A k \in 0 + 1 .. Len(d) : k \in 1 .. Len(d)
    BY <1>1
  <2>3. \A k \in 1 .. Len(d) : k + w \in w + 1 .. Len(pd) /\ d[k] = pd[k + w]
    BY <1>1
  <2>. QED
    BY <2>1, <2>2, <2>3
<1>5. /\ \A i \in 1 .. Len(d) : \A k \in 1 .. Len(q) : d[i] < q[k].n
      /\ \A i \in 1 .. Len(d) : d[i] < nx
  BY <1>1, <1>2 DEF Growing
<1>. QED
  BY <1>1, <1>3, <1>4, <1>5 DEF Growing, d

(* The buffer is emptied, and with the writer the channel.                 *)
LEMMA GrowingEmpty ==
    ASSUME NEW st \in Seq(Nat), NEW pd \in Seq(Nat), NEW w \in Nat, NEW q \in Seq(Command),
           NEW nx \in Nat, Growing(st, pd, w, q, nx)
    PROVE  /\ Growing(st, <<>>, 0, q, nx)
           /\ Growing(st, <<>>, 0, <<>>, nx)
           /\ Growing(st, pd, w, <<>>, nx)
<1>1. Len(<<>>) = 0 /\ 1 .. 0 = {} /\ 0 + 1 .. 0 = {}
  OBVIOUS
<1>. QED
  BY <1>1 DEF Growing, Increasing

-----------------------------------------------------------------------------
LEMMA InitRecorder == Init => RecorderInv /\ DamageInv
<1>. SUFFICES ASSUME Init PROVE RecorderInv /\ DamageInv
  OBVIOUS
<1>1. queue = <<>> /\ pending = <<>> /\ lines = <<>>
  BY DEF Init
<1>2. ~Broken(lines) /\ Ended(lines) = <<>> /\ Len(lines) = 0
  BY <1>1 DEF Broken, Ended
<1>3. Stored \in Seq(0 .. MaxCmds) /\ Len(Stored) = 0
  <2>1. lines \in Lines
    BY <1>1 DEF Lines
  <2>. QED
    BY <1>2, <2>1, EndedItems DEF Stored
<1>4. Stored = <<>>
  BY <1>3, EmptySeq
<1>5. TypeOK
  <2>1. queue \in Seq([op : Ops, n : Cmds]) /\ Len(queue) <= ChannelCap
    BY <1>1, RecorderAssumption
  <2>2. pending \in Seq(Cmds) /\ written \in 0 .. Len(pending)
    BY <1>1 DEF Init
  <2>3. lines \in Seq([item : 0 .. MaxCmds, state : LineStates])
    BY <1>1
  <2>4. next \in 1 .. MaxCmds + 1 /\ faults \in 0 .. MaxFaults /\ crashes \in 0 .. MaxCrashes
    BY RecorderAssumption DEF Init
  <2>. QED
    BY <2>1, <2>2, <2>3, <2>4 DEF Init, TypeOK
<1>6. OnlyEndBroken(lines) /\ Ascending /\ Control
  BY <1>1, <1>2, <1>3, <1>4 DEF Init, OnlyEndBroken, Ascending, Growing, Increasing, Control, Working
<1>7. Bad(lines) = {}
  BY <1>2 DEF Bad
<1>8. DamageInv
  BY <1>2, <1>7, FS_EmptySet DEF Init, DamageInv
<1>. QED
  BY <1>5, <1>6, <1>8 DEF Init, RecorderInv

-----------------------------------------------------------------------------
(* Steps of the abstract log, from what the recorder's steps do.           *)
LEMMA LinesKept ==
    ASSUME lines' = lines
    PROVE  Stored' = Stored
  BY DEF Stored, Ended, Broken, ItemsOf

LEMMA LogKept ==
    ASSUME pc = "stopped" <=> pc' = "stopped", Stored' = Stored, Accepted' = Accepted,
           promised' = promised
    PROVE  UNCHANGED Log!vars
  BY DEF Log!vars

LEMMA LogAccepts ==
    ASSUME pc # "stopped", pc' = pc, UNCHANGED <<Stored, promised>>,
           NEW x \in Cmds, \A y \in Accepted : y < x, Accepted' = Accepted \cup {x}
    PROVE  Log!Next
  BY DEF Log!Next, Log!Accept

LEMMA LogStores ==
    ASSUME pc # "stopped", pc' # "stopped", UNCHANGED promised, Accepted' = Accepted,
           NEW x \in Accepted \ Range(Stored), \A y \in Accepted \ Range(Stored) : x <= y,
           Stored' = Append(Stored, x)
    PROVE  Log!Next
  BY DEF Log!Next, Log!Store, Log!StoreOldest, Log!Unstored, Log!Range, Range

LEMMA LogPromises ==
    ASSUME pc # "stopped", pc' # "stopped", Stored' = Stored, Accepted' = Accepted,
           promised \subseteq promised', promised' \subseteq Range(Stored)
    PROVE  Log!Next
  BY DEF Log!Next, Log!Promise, Log!Range, Range

LEMMA LogEnds ==
    ASSUME pc # "stopped", pc' = "stopped", Stored' = Stored,
           promised \subseteq promised', promised' \subseteq Range(Stored)
    PROVE  Log!Next
  BY DEF Log!Next, Log!End, Log!Range, Range

LEMMA LogEndsLate ==
    ASSUME pc # "stopped", pc' = "stopped", promised' = promised,
           NEW x \in Accepted \ Range(Stored), \A y \in Accepted \ Range(Stored) : x <= y,
           Stored' = Append(Stored, x), promised \subseteq Range(Stored')
    PROVE  Log!Next
  BY DEF Log!Next, Log!End, Log!StoreOldest, Log!Unstored, Log!Range, Range

AbstractStep == Log!Next \/ UNCHANGED Log!vars

LEMMA StateGrows ==
    ASSUME RecorderInv
    PROVE  /\ Stored \in Seq(Nat) /\ pending \in Seq(Nat) /\ pending \in Seq(Nat \ {0})
           /\ written \in Nat /\ written <= Len(pending)
           /\ queue \in Seq(Command) /\ next \in Nat /\ next \in Nat \ {0}
           /\ Growing(Stored, pending, written, queue, next)
<1>1. 0 .. MaxCmds \subseteq Nat /\ Cmds \subseteq Nat \ {0} /\ Cmds \subseteq Nat
  BY RecorderAssumption DEF Cmds
<1>2. Stored \in Seq(Nat) /\ pending \in Seq(Nat) /\ pending \in Seq(Nat \ {0})
  BY <1>1, StateTypes, SeqMonotonic
<1>. QED
  BY <1>2, StateTypes DEF RecorderInv, Ascending

(* Everything accepted has an earlier number than the next call, and what  *)
(* is stored comes before the rest.                                        *)
LEMMA AcceptedBelow ==
    ASSUME RecorderInv
    PROVE  \A y \in Accepted : y \in Nat /\ y < next
<1>. SUFFICES ASSUME NEW y \in Accepted PROVE y \in Nat /\ y < next
  OBVIOUS
<1>1. \/ \E i \in 1 .. Len(Stored) : y = Stored[i]
      \/ y = 0
      \/ \E i \in written + 1 .. Len(pending) : y = pending[i]
      \/ \E i \in 1 .. Len(queue) : y = queue[i].n
  <2>1. Stored \in Seq(0 .. MaxCmds)
    BY StateTypes
  <2>2. y \in Range(Stored) => \E i \in 1 .. Len(Stored) : y = Stored[i]
    BY <2>1, RangeOf
  <2>. QED
    BY <2>2, AcceptedItems
<1>2. \A i \in written + 1 .. Len(pending) : i \in 1 .. Len(pending)
  BY StateTypes
<1>3. /\ \A i \in 1 .. Len(Stored) : Stored[i] \in Nat /\ Stored[i] < next
      /\ \A i \in 1 .. Len(pending) : pending[i] \in Nat /\ pending[i] < next
      /\ \A i \in 1 .. Len(queue) : queue[i].n \in Nat /\ queue[i].n < next
      /\ 0 \in Nat /\ 0 < next
  BY StateTypes, StateGrows DEF Growing
<1>. QED
  BY <1>1, <1>2, <1>3

-----------------------------------------------------------------------------
(* Callers.                                                                *)
LEMMA SendStep ==
    ASSUME RecorderInv, NEW op \in Ops, Send(op)
    PROVE  RecorderInv' /\ AbstractStep
<1>0. /\ next \in Cmds /\ next' = next + 1 /\ next' \in 1 .. MaxCmds + 1
      /\ UNCHANGED <<closed, taskVars, stateVars, lines, promised, faults, crashes>>
  BY RecorderAssumption DEF Send, Cmds
<1>1. UNCHANGED <<pc, cmd, attempt, written, writer, deferred, meta, pending>> /\ Stored' = Stored
  BY <1>0, LinesKept DEF taskVars, stateVars
<1>2. reply' \in [Cmds -> {"none", "wait", "ok", "err"}]
  BY DEF RecorderInv, TypeOK, Send
<1>3. CASE pc = "stopped"
  <2>1. queue' = queue
    BY <1>3 DEF Send
  <2>2. TypeOK'
    BY <1>0, <1>1, <1>2, <2>1 DEF RecorderInv, TypeOK
  <2>3. Ascending'
    BY <1>0, <1>1, <2>1, StateGrows, GrowingNext DEF Ascending
  <2>4. Control' /\ OnlyEndBroken(lines)'
    BY <1>0, <1>1, <1>3, <2>1 DEF RecorderInv, Control, Working, OnlyEndBroken
  <2>5. Accepted' = Accepted
    BY <1>1, <2>1 DEF Accepted, Unwritten, Queued, IsAdd
  <2>. QED
    BY <1>0, <1>1, <2>2, <2>3, <2>4, <2>5, LogKept DEF RecorderInv, AbstractStep
<1>4. CASE pc # "stopped"
  <2>. DEFINE c == [op |-> op, n |-> next]
  <2>1. queue' = Append(queue, c) /\ Len(queue) < ChannelCap
    BY <1>4 DEF Send
  <2>2. c \in Command /\ c.n = next /\ c.op = op
    BY <1>0 DEF Command
  <2>. HIDE DEF c
  <2>3. /\ queue' \in Seq(Command) /\ Len(queue') = Len(queue) + 1 /\ Len(queue) \in Nat
        /\ \A i \in 1 .. Len(queue) : queue'[i] = queue[i]
        /\ queue'[Len(queue) + 1] = c
    BY <2>1, <2>2, StateTypes, AppendProperties
  <2>4. TypeOK'
    <3>1. queue' \in Seq([op : Ops, n : Cmds]) /\ Len(queue') <= ChannelCap
      BY <2>1, <2>3, RecorderAssumption DEF Command
    <3>. QED
      BY <1>0, <1>1, <1>2, <3>1 DEF RecorderInv, TypeOK
  <2>5. \A i \in 1 .. Len(queue') :
           \/ i \in 1 .. Len(queue) /\ queue'[i] = queue[i]
           \/ i = Len(queue) + 1 /\ queue'[i] = c
    BY <2>3
  <2>6. Ascending'
    BY <1>0, <1>1, <2>1, <2>2, StateGrows, GrowingSend DEF Ascending
  <2>7. Control' /\ OnlyEndBroken(lines)'
    <3>1. Working' => Working /\ cmd' = cmd
      BY <1>1 DEF Working
    <3>2. Working => /\ cmd \in Command /\ cmd.n \in Nat /\ cmd.n < next
                     /\ \A k \in 1 .. Len(queue) : cmd.n < queue[k].n
      BY RecorderAssumption DEF RecorderInv, Control, Command, Cmds
    <3>3. Working => \A k \in 1 .. Len(queue') : cmd.n < queue'[k].n
      BY <2>2, <2>5, <3>2
    <3>4. Working => cmd.n < next'
      BY <1>0, <3>2, StateTypes
    <3>5. Working' => cmd' \in Command /\ cmd'.n < next' /\ \A k \in 1 .. Len(queue') : cmd'.n < queue'[k].n
      BY <3>1, <3>2, <3>3, <3>4
    <3>6. OnlyEndBroken(lines)'
      BY <1>0 DEF RecorderInv, OnlyEndBroken
    <3>. QED
      BY <1>1, <1>4, <3>5, <3>6 DEF RecorderInv, Control
  <2>8. AbstractStep
    <3>1. \A x : x \in Range(Stored)' <=> x \in Range(Stored)
      BY <1>1 DEF Range
    <3>2. \A x : x \in Accepted' <=> x \in Accepted \/ (op = "add" /\ x = next)
      <4>. SUFFICES ASSUME NEW x PROVE x \in Accepted' <=> x \in Accepted \/ (op = "add" /\ x = next)
        OBVIOUS
      <4>1. x \in Accepted' <=>
              \/ x \in Range(Stored)'
              \/ meta' /\ x = 0
              \/ \E i \in written' + 1 .. Len(pending') : x = pending'[i]
              \/ \E i \in 1 .. Len(queue') : queue'[i].op = "add" /\ x = queue'[i].n
        BY DEF Accepted, Unwritten, Queued, IsAdd
      <4>2. (\E i \in 1 .. Len(queue') : queue'[i].op = "add" /\ x = queue'[i].n)
              <=> \/ \E i \in 1 .. Len(queue) : queue[i].op = "add" /\ x = queue[i].n
                  \/ op = "add" /\ x = next
        <5>1. \A i \in 1 .. Len(queue) : i \in 1 .. Len(queue')
          BY <2>3
        <5>2. Len(queue) + 1 \in 1 .. Len(queue')
          BY <2>3
        <5>. QED
          BY <2>2, <2>3, <2>5, <5>1, <5>2
      <4>. QED
        BY <1>1, <3>1, <4>1, <4>2, AcceptedItems
    <3>3. CASE op = "add"
      <4>1. \A y \in Accepted : y < next
        BY AcceptedBelow
      <4>2. Accepted' = Accepted \cup {next}
        BY <3>2, <3>3
      <4>. QED
        BY <1>0, <1>1, <1>4, <4>1, <4>2, LogAccepts DEF AbstractStep
    <3>4. CASE op # "add"
      <4>1. Accepted' = Accepted
        BY <3>2, <3>4
      <4>. QED
        BY <1>0, <1>1, <4>1, LogKept DEF AbstractStep
    <3>. QED
      BY <3>3, <3>4
  <2>. QED
    BY <1>0, <1>1, <2>4, <2>6, <2>7, <2>8 DEF RecorderInv
<1>. QED
  BY <1>3, <1>4

LEMMA DiscardStep ==
    ASSUME RecorderInv, Discard
    PROVE  RecorderInv' /\ AbstractStep
<1>1. /\ closed' = TRUE
      /\ UNCHANGED <<queue, next, reply, pc, cmd, attempt, written, writer, deferred, meta, pending>>
      /\ UNCHANGED <<lines, promised, faults, crashes>>
  BY DEF Discard, taskVars, stateVars
<1>2. Stored' = Stored
  BY <1>1, LinesKept
<1>3. TypeOK'
  BY <1>1 DEF RecorderInv, TypeOK
<1>4. Ascending' /\ Control' /\ OnlyEndBroken(lines)'
  BY <1>1, <1>2 DEF RecorderInv, Ascending, Control, Working, OnlyEndBroken
<1>5. Accepted' = Accepted
  BY <1>1, <1>2 DEF Accepted, Unwritten, Queued, IsAdd
<1>. QED
  BY <1>1, <1>2, <1>3, <1>4, <1>5, LogKept DEF RecorderInv, AbstractStep

-----------------------------------------------------------------------------
(* What is buffered, and what is in the channel.                           *)
InBuffer(x, pd, w) == \E i \in w + 1 .. Len(pd) : x = pd[i]
InQueue(x, q) == \E i \in 1 .. Len(q) : q[i].op = "add" /\ x = q[i].n

LEMMA AcceptedBefore ==
    ASSUME NEW x
    PROVE  x \in Accepted <=>
             x \in Range(Stored) \/ (meta /\ x = 0) \/ InBuffer(x, pending, written) \/ InQueue(x, queue)
  BY DEF Accepted, Unwritten, Queued, IsAdd, InBuffer, InQueue

LEMMA AcceptedAfter ==
    ASSUME NEW x
    PROVE  x \in Accepted' <=>
             \/ x \in Range(Stored') \/ (meta' /\ x = 0)
             \/ InBuffer(x, pending', written') \/ InQueue(x, queue')
  BY DEF Accepted, Unwritten, Queued, IsAdd, InBuffer, InQueue, Range

LEMMA NoneWaits == \A x : ~InQueue(x, <<>>) /\ ~InBuffer(x, <<>>, 0)
<1>1. Len(<<>>) = 0 /\ 1 .. 0 = {} /\ 0 + 1 .. 0 = {}
  OBVIOUS
<1>. QED
  BY <1>1 DEF InQueue, InBuffer

LEMMA TakenFromQueue ==
    ASSUME NEW q \in Seq(Command), q # <<>>, NEW x
    PROVE  InQueue(x, q) <=> (Head(q).op = "add" /\ x = Head(q).n) \/ InQueue(x, Tail(q))
<1>. DEFINE t == Tail(q)
<1>1. /\ Len(q) \in Nat /\ Len(t) = Len(q) - 1
      /\ \A i \in 1 .. Len(t) : t[i] = q[i + 1]
      /\ Head(q) = q[1] /\ 1 \in 1 .. Len(q)
  <2>1. Len(q) \in Nat /\ Len(q) > 0
    BY LenProperties, EmptySeq
  <2>. QED
    BY <2>1, HeadTailProperties
<1>. HIDE DEF t
<1>2. \A i \in 1 .. Len(q) : i = 1 \/ (i - 1 \in 1 .. Len(t) /\ q[i] = t[i - 1])
  <2>1. \A i \in 1 .. Len(q) : i = 1 \/ (i - 1 \in 1 .. Len(t) /\ i - 1 + 1 = i)
    BY <1>1
  <2>. QED
    BY <1>1, <2>1
<1>3. \A i \in 1 .. Len(t) : i + 1 \in 1 .. Len(q)
  BY <1>1
<1>4. InQueue(x, q) => (q[1].op = "add" /\ x = q[1].n) \/ InQueue(x, t)
  BY <1>2 DEF InQueue
<1>5. (q[1].op = "add" /\ x = q[1].n) \/ InQueue(x, t) => InQueue(x, q)
  BY <1>1, <1>3 DEF InQueue
<1>. QED
  BY <1>1, <1>4, <1>5 DEF t

LEMMA PutInBuffer ==
    ASSUME NEW pd \in Seq(Nat), NEW w \in Nat, w <= Len(pd), NEW y \in Nat, NEW x
    PROVE  InBuffer(x, Append(pd, y), w) <=> InBuffer(x, pd, w) \/ x = y
<1>. DEFINE a == Append(pd, y)
<1>1. /\ Len(pd) \in Nat /\ Len(a) = Len(pd) + 1
      /\ \A i \in 1 .. Len(pd) : a[i] = pd[i]
      /\ a[Len(pd) + 1] = y
  BY AppendProperties, LenProperties
<1>. HIDE DEF a
<1>2. \A i \in w + 1 .. Len(a) :
        (i \in w + 1 .. Len(pd) /\ i \in 1 .. Len(pd)) \/ i = Len(pd) + 1
  BY <1>1
<1>3. \A i \in w + 1 .. Len(pd) : i \in w + 1 .. Len(a) /\ i \in 1 .. Len(pd)
  BY <1>1
<1>4. Len(pd) + 1 \in w + 1 .. Len(a)
  BY <1>1
<1>. QED
  BY <1>1, <1>2, <1>3, <1>4 DEF InBuffer, a

LEMMA TakenFromBuffer ==
    ASSUME NEW pd \in Seq(Nat), NEW w \in Nat, w < Len(pd), NEW x
    PROVE  InBuffer(x, pd, w) <=> x = pd[w + 1] \/ InBuffer(x, pd, w + 1)
<1>1. \A i \in w + 1 .. Len(pd) : i = w + 1 \/ i \in (w + 1) + 1 .. Len(pd)
  BY LenProperties
<1>2. \A i \in (w + 1) + 1 .. Len(pd) : i \in w + 1 .. Len(pd)
  BY LenProperties
<1>3. w + 1 \in w + 1 .. Len(pd)
  BY LenProperties
<1>. QED
  BY <1>1, <1>2, <1>3 DEF InBuffer

LEMMA BufferDrained ==
    ASSUME NEW pd \in Seq(Nat), NEW w \in Nat, w <= Len(pd), NEW x,
           NEW d, Len(d) = Len(pd) - w,
           \A i \in 1 .. Len(d) : i + w \in w + 1 .. Len(pd) /\ d[i] = pd[i + w]
    PROVE  InBuffer(x, d, 0) <=> InBuffer(x, pd, w)
<1>1. Len(pd) \in Nat
  BY LenProperties
<1>2. \A i \in 0 + 1 .. Len(d) : i \in 1 .. Len(d)
  BY <1>1
<1>3. \A i \in w + 1 .. Len(pd) : i - w \in 0 + 1 .. Len(d) /\ i - w \in 1 .. Len(d) /\ (i - w) + w = i
  BY <1>1
<1>4. InBuffer(x, d, 0) => InBuffer(x, pd, w)
  BY <1>2 DEF InBuffer
<1>5. \A i \in w + 1 .. Len(pd) : i - w \in 0 + 1 .. Len(d) /\ d[i - w] = pd[i]
  BY <1>3
<1>6. InBuffer(x, pd, w) => InBuffer(x, d, 0)
  BY <1>5 DEF InBuffer
<1>. QED
  BY <1>4, <1>6

-----------------------------------------------------------------------------
(* The writer takes a command.                                             *)
LEMMA AnswerTypes ==
    ASSUME RecorderInv, NEW c \in Command, NEW r \in {"ok", "err"}
    PROVE  /\ Answer(c, r) \in [Cmds -> {"none", "wait", "ok", "err"}]
           /\ DropQueue(Answer(c, r)) \in [Cmds -> {"none", "wait", "ok", "err"}]
           /\ DropQueue(reply) \in [Cmds -> {"none", "wait", "ok", "err"}]
<1>1. reply \in [Cmds -> {"none", "wait", "ok", "err"}] /\ c.n \in Cmds
  BY DEF RecorderInv, TypeOK, Command
<1>2. Answer(c, r) \in [Cmds -> {"none", "wait", "ok", "err"}]
  BY <1>1 DEF Answer
<1>3. \A f \in [Cmds -> {"none", "wait", "ok", "err"}] :
         DropQueue(f) \in [Cmds -> {"none", "wait", "ok", "err"}]
  BY DEF DropQueue
<1>. QED
  BY <1>1, <1>2, <1>3

LEMMA RecvAddStep ==
    ASSUME RecorderInv, RecvAdd
    PROVE  RecorderInv' /\ AbstractStep
<1>. DEFINE c == Head(queue)
<1>1. /\ pc = "recv" /\ queue # <<>> /\ c.op = "add" /\ queue' = Tail(queue)
      /\ pending' = Append(pending, c.n)
      /\ \/ UNCHANGED <<pc, cmd>>
         \/ pc' = "open" /\ cmd' = c
      /\ UNCHANGED <<next, reply, closed, attempt, written, writer, deferred, meta>>
      /\ UNCHANGED <<lines, promised, faults, crashes>>
  BY DEF RecvAdd, IsAdd
<1>2. /\ c = queue[1] /\ 1 \in 1 .. Len(queue) /\ Len(queue) \in Nat
      /\ queue' \in Seq(Command) /\ Len(queue') = Len(queue) - 1
  BY <1>1, QueueTail, StateTypes
<1>3. c \in Command /\ c.n \in Cmds /\ c.n \in Nat
  BY <1>2, StateTypes, RecorderAssumption DEF Command, Cmds
<1>4. /\ Ascending' /\ Stored' = Stored
      /\ \A k \in 1 .. Len(queue') : c.n < queue'[k].n
      /\ c.n < next'
  BY <1>1, LinesKept, StateGrows, GrowingBuffer, GrowingTake DEF Ascending
<1>. HIDE DEF c
<1>5. pending' \in Seq(Cmds) /\ Len(pending') = Len(pending) + 1 /\ written = 0
  BY <1>1, <1>3, StateTypes, AppendProperties DEF RecorderInv, Control
<1>6. TypeOK'
  <2>1. queue' \in Seq([op : Ops, n : Cmds]) /\ Len(queue') <= ChannelCap
    BY <1>2, RecorderAssumption DEF RecorderInv, TypeOK, Command
  <2>2. written' \in 0 .. Len(pending')
    BY <1>1, <1>5, StateTypes
  <2>3. pc' \in {"recv", "open", "meta", "items", "stopped"} /\ cmd' \in [op : Ops, n : Cmds] \cup {NoCmd}
    BY <1>1, <1>3 DEF RecorderInv, TypeOK, Command
  <2>. QED
    BY <1>1, <1>5, <2>1, <2>2, <2>3 DEF RecorderInv, TypeOK
<1>7. Control' /\ OnlyEndBroken(lines)'
  BY <1>1, <1>3, <1>4, <1>5 DEF RecorderInv, Control, Working, OnlyEndBroken
<1>8. Accepted' = Accepted
  <2>1. \A x : InBuffer(x, pending', written') <=> InBuffer(x, pending, written) \/ x = c.n
    BY <1>1, <1>3, StateGrows, PutInBuffer
  <2>2. \A x : InQueue(x, queue) <=> x = c.n \/ InQueue(x, queue')
    BY <1>1, StateGrows, TakenFromQueue DEF c
  <2>. QED
    BY <1>1, <1>4, <2>1, <2>2, AcceptedBefore, AcceptedAfter
<1>9. pc = "stopped" <=> pc' = "stopped"
  BY <1>1
<1>. QED
  BY <1>1, <1>4, <1>6, <1>7, <1>8, <1>9, LogKept DEF RecorderInv, AbstractStep

LEMMA RecvBarrierStep ==
    ASSUME RecorderInv, RecvBarrier
    PROVE  RecorderInv' /\ AbstractStep
<1>. DEFINE c == Head(queue)
<1>1. /\ pc = "recv" /\ queue # <<>> /\ c.op # "add" /\ queue' = Tail(queue)
      /\ pc' = "open" /\ cmd' = c
      /\ UNCHANGED <<next, reply, closed, attempt, written, writer, deferred, meta, pending>>
      /\ UNCHANGED <<lines, promised, faults, crashes>>
  BY DEF RecvBarrier, IsAdd, stateVars
<1>2. /\ c = queue[1] /\ 1 \in 1 .. Len(queue) /\ Len(queue) \in Nat
      /\ queue' \in Seq(Command) /\ Len(queue') = Len(queue) - 1
  BY <1>1, QueueTail, StateTypes
<1>3. c \in Command
  BY <1>2, StateTypes
<1>4. /\ Ascending' /\ Stored' = Stored
      /\ \A k \in 1 .. Len(queue') : c.n < queue'[k].n
      /\ c.n < next'
  BY <1>1, LinesKept, StateGrows, GrowingTake DEF Ascending
<1>. HIDE DEF c
<1>5. TypeOK'
  <2>1. queue' \in Seq([op : Ops, n : Cmds]) /\ Len(queue') <= ChannelCap
    BY <1>2, RecorderAssumption DEF RecorderInv, TypeOK, Command
  <2>2. cmd' \in [op : Ops, n : Cmds] \cup {NoCmd}
    BY <1>1, <1>3 DEF Command
  <2>. QED
    BY <1>1, <2>1, <2>2 DEF RecorderInv, TypeOK
<1>6. Control' /\ OnlyEndBroken(lines)'
  BY <1>1, <1>3, <1>4 DEF RecorderInv, Control, Working, OnlyEndBroken
<1>7. Accepted' = Accepted
  <2>1. \A x : InQueue(x, queue) <=> InQueue(x, queue')
    BY <1>1, StateGrows, TakenFromQueue DEF c
  <2>. QED
    BY <1>1, <1>4, <2>1, AcceptedBefore, AcceptedAfter
<1>. QED
  BY <1>1, <1>4, <1>5, <1>6, <1>7, LogKept DEF RecorderInv, AbstractStep

LEMMA RecvNothingToDoStep ==
    ASSUME RecorderInv, RecvNothingToDo
    PROVE  RecorderInv' /\ AbstractStep
<1>. DEFINE c == Head(queue)
<1>1. /\ pc = "recv" /\ queue # <<>> /\ c.op # "add"
      /\ reply' \in {Answer(c, "ok"), DropQueue(Answer(c, "ok"))}
      /\ \/ c.op = "shutdown" /\ queue' = <<>> /\ pc' = "stopped"
         \/ c.op = "flush" /\ queue' = Tail(queue) /\ pc' = "recv"
      /\ UNCHANGED <<next, closed, cmd, attempt, written, writer, deferred, meta, pending>>
      /\ UNCHANGED <<lines, promised, faults, crashes>>
  BY DEF RecvNothingToDo, stateVars
<1>2. /\ c = queue[1] /\ 1 \in 1 .. Len(queue) /\ Len(queue) \in Nat
      /\ Tail(queue) \in Seq(Command) /\ Len(Tail(queue)) = Len(queue) - 1
  BY <1>1, QueueTail, StateTypes
<1>3. c \in Command
  BY <1>2, StateTypes
<1>4. Growing(Stored, pending, written, Tail(queue), next) /\ Growing(Stored, pending, written, <<>>, next)
  BY <1>1, StateGrows, GrowingTake, GrowingEmpty
<1>5. Stored' = Stored
  BY <1>1, LinesKept
<1>6. Ascending'
  BY <1>1, <1>4, <1>5 DEF Ascending
<1>7. TypeOK'
  <2>1. queue' \in Seq([op : Ops, n : Cmds]) /\ Len(queue') <= ChannelCap
    <3>1. <<>> \in Seq([op : Ops, n : Cmds]) /\ Len(<<>>) <= ChannelCap
      BY RecorderAssumption
    <3>2. Tail(queue) \in Seq([op : Ops, n : Cmds]) /\ Len(Tail(queue)) <= ChannelCap
      BY <1>2, RecorderAssumption DEF RecorderInv, TypeOK, Command
    <3>. QED
      BY <1>1, <3>1, <3>2
  <2>2. reply' \in [Cmds -> {"none", "wait", "ok", "err"}]
    BY <1>1, <1>3, AnswerTypes
  <2>. QED
    BY <1>1, <2>1, <2>2 DEF RecorderInv, TypeOK
<1>8. Control' /\ OnlyEndBroken(lines)'
  BY <1>1, <1>5 DEF RecorderInv, Control, Working, OnlyEndBroken
<1>9. AbstractStep
  <2>1. CASE pc' = "stopped"
    BY <1>1, <1>5, <2>1, LogEnds DEF RecorderInv, AbstractStep
  <2>2. CASE pc' = "recv"
    <3>0. queue' = Tail(queue) /\ queue # <<>> /\ Head(queue).op # "add"
      BY <1>1, <2>2
    <3>1. \A x : InQueue(x, queue) <=> InQueue(x, queue')
      BY <3>0, StateGrows, TakenFromQueue
    <3>2. Accepted' = Accepted
      BY <1>1, <1>5, <3>1, AcceptedBefore, AcceptedAfter
    <3>. QED
      BY <1>1, <1>5, <2>2, <3>2, LogKept DEF AbstractStep
  <2>. QED
    BY <1>1, <2>1, <2>2
<1>. QED
  BY <1>1, <1>5, <1>6, <1>7, <1>8, <1>9 DEF RecorderInv

LEMMA WriterEndsStep ==
    ASSUME RecorderInv, WriterEnds
    PROVE  RecorderInv' /\ AbstractStep
<1>1. /\ pc = "recv" /\ queue = <<>> /\ pc' = "stopped"
      /\ UNCHANGED <<queue, next, reply, closed, cmd, attempt, written>>
      /\ UNCHANGED <<writer, deferred, meta, pending, lines, promised, faults, crashes>>
  BY DEF WriterEnds, callVars, stateVars
<1>2. Stored' = Stored
  BY <1>1, LinesKept
<1>3. TypeOK'
  BY <1>1 DEF RecorderInv, TypeOK
<1>4. Ascending' /\ Control' /\ OnlyEndBroken(lines)'
  BY <1>1, <1>2 DEF RecorderInv, Ascending, Control, Working, OnlyEndBroken
<1>. QED
  BY <1>1, <1>2, <1>3, <1>4, LogEnds DEF RecorderInv, AbstractStep

LEMMA EnsureWriterOpenStep ==
    ASSUME RecorderInv, EnsureWriterOpen
    PROVE  RecorderInv' /\ AbstractStep
<1>1. /\ pc = "open" /\ pc' = "meta" /\ writer' = TRUE /\ deferred' \in BOOLEAN
      /\ UNCHANGED <<queue, next, reply, closed, cmd, attempt, written, meta, pending>>
      /\ UNCHANGED <<lines, promised, faults, crashes>>
  BY DEF EnsureWriterOpen, callVars, RecorderInv, TypeOK
<1>2. Stored' = Stored
  BY <1>1, LinesKept
<1>3. TypeOK'
  BY <1>1 DEF RecorderInv, TypeOK
<1>4. Ascending' /\ Control' /\ OnlyEndBroken(lines)'
  BY <1>1, <1>2 DEF RecorderInv, Ascending, Control, Working, OnlyEndBroken
<1>5. Accepted' = Accepted
  BY <1>1, <1>2 DEF Accepted, Unwritten, Queued, IsAdd
<1>. QED
  BY <1>1, <1>2, <1>3, <1>4, <1>5, LogKept DEF RecorderInv, AbstractStep

-----------------------------------------------------------------------------
(* Writing.  What is written next is the oldest item that is not stored.   *)
LEMMA UnderWayIsOldest ==
    ASSUME RecorderInv, NEW x \in UnderWay
    PROVE  /\ x \in 0 .. MaxCmds
           /\ x \in Accepted \ Range(Stored)
           /\ \A y \in Accepted \ Range(Stored) : x <= y
<1>0. \A y : y \in Range(Stored) <=> \E i \in 1 .. Len(Stored) : y = Stored[i]
  BY StateTypes, RangeOf
<1>1. CASE pc = "meta" /\ meta
  <2>1. x = 0 /\ 0 \in 0 .. MaxCmds
    BY <1>1, RecorderAssumption DEF UnderWay
  <2>2. Stored = <<>>
    BY <1>1 DEF RecorderInv, Control
  <2>3. Len(<<>>) = 0 /\ 1 .. 0 = {}
    OBVIOUS
  <2>4. 0 \notin Range(Stored)
    BY <1>0, <2>2, <2>3
  <2>5. 0 \in Accepted
    BY <1>1, AcceptedBefore
  <2>. QED
    BY <2>1, <2>4, <2>5, AcceptedBelow
<1>2. CASE ~(pc = "meta" /\ meta)
  <2>1. pc = "items" /\ written < Len(pending) /\ x = pending[written + 1]
    BY <1>2 DEF UnderWay
  <2>2. ~meta
    BY <2>1 DEF RecorderInv, Control
  <2>3. written + 1 \in 1 .. Len(pending) /\ written + 1 \in written + 1 .. Len(pending)
    BY <2>1, StateTypes
  <2>4. x \in 0 .. MaxCmds /\ x \in Nat
    BY <2>1, <2>3, StateTypes
  <2>5. \A i \in 1 .. Len(Stored) : Stored[i] \in Nat /\ Stored[i] < x
    BY <2>1, <2>3, StateTypes, StateGrows DEF Growing
  <2>6. x \notin Range(Stored)
    BY <1>0, <2>4, <2>5
  <2>7. x \in Accepted
    BY <2>1, <2>3, AcceptedBefore DEF InBuffer
  <2>8. ASSUME NEW y \in Accepted \ Range(Stored) PROVE x <= y
    <3>1. InBuffer(y, pending, written) \/ InQueue(y, queue)
      BY <2>2, AcceptedBefore
    <3>2. CASE InBuffer(y, pending, written)
      <4>1. PICK i \in written + 1 .. Len(pending) : y = pending[i]
        BY <3>2 DEF InBuffer
      <4>2. i \in 1 .. Len(pending) /\ (i = written + 1 \/ written + 1 < i)
        BY <4>1, StateTypes
      <4>3. written + 1 < i => pending[written + 1] < pending[i]
        BY <2>3, <4>2, StateGrows DEF Growing, Increasing
      <4>4. pending[i] \in Nat
        BY <4>2, StateTypes
      <4>. QED
        BY <2>1, <2>4, <4>1, <4>2, <4>3, <4>4
    <3>3. CASE InQueue(y, queue)
      <4>1. PICK i \in 1 .. Len(queue) : y = queue[i].n
        BY <3>3 DEF InQueue
      <4>2. pending[written + 1] < queue[i].n /\ queue[i].n \in Nat
        BY <2>3, StateTypes, StateGrows DEF Growing
      <4>. QED
        BY <2>1, <2>4, <4>1, <4>2
    <3>. QED
      BY <3>1, <3>2, <3>3
  <2>. QED
    BY <2>4, <2>6, <2>7, <2>8
<1>. QED
  BY <1>1, <1>2

LEMMA WriteSessionMetaStep ==
    ASSUME RecorderInv, WriteSessionMeta
    PROVE  RecorderInv' /\ AbstractStep
<1>1. /\ pc = "meta" /\ pc' = "items" /\ meta' = FALSE
      /\ lines' = IF meta THEN Put(lines, 0, "whole") ELSE lines
      /\ UNCHANGED <<queue, next, reply, closed, cmd, attempt, written, writer, deferred, pending>>
      /\ UNCHANGED <<promised, faults, crashes>>
  BY DEF WriteSessionMeta, callVars
<1>2. Working /\ OnlyEndBroken(lines) /\ lines \in Lines
  BY <1>1, StateTypes DEF Working, RecorderInv
<1>3. /\ lines' \in Lines /\ OnlyEndBroken(lines)'
      /\ Stored' = IF meta THEN Append(Stored, 0) ELSE Stored
  <2>1. CASE meta
    <3>1. 0 \in 0 .. MaxCmds /\ lines' = Put(lines, 0, "whole")
      BY <1>1, <2>1, RecorderAssumption
    <3>2. lines' \in Lines /\ OnlyEndBroken(lines') /\ ItemsOf(Ended(lines')) = Append(ItemsOf(Ended(lines)), 0)
      BY <1>2, <3>1, PutWhole
    <3>. QED
      BY <2>1, <3>2 DEF Stored, OnlyEndBroken, ItemsOf, Ended, Broken
  <2>2. CASE ~meta
    BY <1>1, <1>2, <2>2, LinesKept DEF OnlyEndBroken
  <2>. QED
    BY <2>1, <2>2
<1>4. Ascending'
  <2>1. CASE meta
    <3>1. Stored = <<>>
      BY <2>1 DEF RecorderInv, Control
    <3>. QED
      BY <1>1, <1>3, <2>1, <3>1, StateGrows, GrowingMeta DEF Ascending
  <2>2. CASE ~meta
    BY <1>1, <1>3, <2>2 DEF RecorderInv, Ascending
  <2>. QED
    BY <2>1, <2>2
<1>5. TypeOK'
  BY <1>1, <1>3 DEF RecorderInv, TypeOK, Lines, LineType
<1>6. Control'
  BY <1>1 DEF RecorderInv, Control, Working
<1>7. Range(Stored') = Range(Stored) \cup (IF meta THEN {0} ELSE {})
  <2>1. 0 \in 0 .. MaxCmds
    BY RecorderAssumption
  <2>. QED
    BY <1>3, <2>1, StateTypes, RangeGrows
<1>8. Accepted' = Accepted
  BY <1>1, <1>7, AcceptedBefore, AcceptedAfter
<1>9. AbstractStep
  <2>1. CASE meta
    <3>1. 0 \in UnderWay
      BY <1>1, <2>1 DEF UnderWay
    <3>2. 0 \in Accepted \ Range(Stored) /\ \A y \in Accepted \ Range(Stored) : 0 <= y
      BY <3>1, UnderWayIsOldest
    <3>. QED
      BY <1>1, <1>3, <1>8, <2>1, <3>2, LogStores DEF AbstractStep
  <2>2. CASE ~meta
    BY <1>1, <1>3, <1>8, <2>2, LogKept DEF AbstractStep
  <2>. QED
    BY <2>1, <2>2
<1>10. promised' \subseteq Range(Stored')
  BY <1>1, <1>7 DEF RecorderInv
<1>11. Range(Stored') = Range(Stored)'
  BY DEF Range
<1>. QED
  BY <1>3, <1>4, <1>5, <1>6, <1>9, <1>10, <1>11 DEF RecorderInv

LEMMA WriteRolloutItemStep ==
    ASSUME RecorderInv, WriteRolloutItem
    PROVE  RecorderInv' /\ AbstractStep
<1>. DEFINE x == pending[written + 1]
<1>1. /\ pc = "items" /\ written < Len(pending) /\ lines' = Put(lines, x, "whole")
      /\ written' = written + 1
      /\ UNCHANGED <<queue, next, reply, closed, pc, cmd, attempt, writer, deferred, meta, pending>>
      /\ UNCHANGED <<promised, faults, crashes>>
  BY DEF WriteRolloutItem, callVars, stateVars
<1>2. Working /\ OnlyEndBroken(lines) /\ lines \in Lines
  BY <1>1, StateTypes DEF Working, RecorderInv
<1>3. x \in UnderWay
  BY <1>1 DEF UnderWay
<1>4. /\ x \in 0 .. MaxCmds /\ x \in Accepted \ Range(Stored)
      /\ \A y \in Accepted \ Range(Stored) : x <= y
  BY <1>3, UnderWayIsOldest
<1>5. Growing(Append(Stored, x), pending, written + 1, queue, next)
  BY <1>1, StateGrows, GrowingWrite
<1>6. \A y : InBuffer(y, pending, written) <=> y = x \/ InBuffer(y, pending, written + 1)
  BY <1>1, StateGrows, TakenFromBuffer
<1>. HIDE DEF x
<1>7. lines' \in Lines /\ OnlyEndBroken(lines)' /\ Stored' = Append(Stored, x)
  <2>1. lines' \in Lines /\ OnlyEndBroken(lines') /\ ItemsOf(Ended(lines')) = Append(ItemsOf(Ended(lines)), x)
    BY <1>1, <1>2, <1>4, PutWhole
  <2>. QED
    BY <2>1 DEF Stored, OnlyEndBroken, ItemsOf, Ended, Broken
<1>8. Ascending'
  BY <1>1, <1>5, <1>7 DEF Ascending
<1>9. TypeOK'
  <2>1. written' \in 0 .. Len(pending')
    BY <1>1, StateTypes
  <2>. QED
    BY <1>1, <1>7, <2>1 DEF RecorderInv, TypeOK, Lines, LineType
<1>10. Control'
  BY <1>1 DEF RecorderInv, Control, Working
<1>11. Range(Stored') = Range(Stored) \cup {x}
  <2>1. Stored \in Seq(Nat)
    BY StateGrows
  <2>2. x \in Nat
    BY <1>4, RecorderAssumption
  <2>3. Range(Append(Stored, x)) = Range(Stored) \cup {x}
    BY <2>1, <2>2, RangeGrows
  <2>. QED
    BY <1>7, <2>3
<1>12. Accepted' = Accepted
  BY <1>1, <1>6, <1>11, AcceptedBefore, AcceptedAfter
<1>13. AbstractStep
  BY <1>1, <1>4, <1>7, <1>12, LogStores DEF AbstractStep
<1>14. promised' \subseteq Range(Stored)'
  <2>1. Range(Stored') = Range(Stored)'
    BY DEF Range
  <2>. QED
    BY <1>1, <1>11, <2>1 DEF RecorderInv
<1>. QED
  BY <1>7, <1>8, <1>9, <1>10, <1>13, <1>14 DEF RecorderInv

(* A failed attempt stores nothing and loses nothing.                      *)
LEMMA FailStep ==
    ASSUME RecorderInv, Working, Fail, UNCHANGED <<deferred, meta>>,
           lines' \in Lines, OnlyEndBroken(lines'), Stored' = Stored
    PROVE  RecorderInv' /\ AbstractStep
<1>. DEFINE d == SubSeq(pending, written + 1, Len(pending))
<1>1. /\ faults < MaxFaults /\ faults' = faults + 1 /\ writer' = FALSE /\ pending' = d
      /\ written' = 0 /\ promised' = promised
      /\ UNCHANGED <<queue, next, closed, crashes, deferred, meta>>
      /\ \/ attempt' = 2 /\ pc' = "open" /\ UNCHANGED <<reply, cmd>>
         \/ attempt' = 1 /\ pc' = "recv" /\ cmd' = NoCmd /\ reply' = Answer(cmd, "err")
  BY DEF Fail, Finish
<1>2. /\ Len(d) = Len(pending) - written
      /\ \A i \in 1 .. Len(d) : i + written \in written + 1 .. Len(pending) /\ d[i] = pending[i + written]
      /\ Growing(Stored, d, 0, queue, next)
  BY StateGrows, GrowingDrain
<1>3. d \in Seq(Cmds)
  <2>1. written + 1 \in Int /\ Len(pending) \in Int
    BY StateTypes
  <2>2. \A i \in written + 1 .. Len(pending) : i \in 1 .. Len(pending)
    BY StateTypes
  <2>3. \A i \in written + 1 .. Len(pending) : pending[i] \in Cmds
    BY <2>2, StateTypes
  <2>. QED
    BY <2>1, <2>3, SubSeqProperties
<1>. HIDE DEF d
<1>4. Ascending'
  BY <1>1, <1>2 DEF Ascending
<1>5. cmd \in Command
  BY DEF RecorderInv, Control
<1>6. TypeOK'
  <2>1. pending' \in Seq(Cmds) /\ written' \in 0 .. Len(pending')
    BY <1>1, <1>2, <1>3, StateTypes
  <2>2. reply' \in [Cmds -> {"none", "wait", "ok", "err"}]
    BY <1>1, <1>5, AnswerTypes DEF RecorderInv, TypeOK
  <2>3. cmd' \in [op : Ops, n : Cmds] \cup {NoCmd}
    BY <1>1 DEF RecorderInv, TypeOK
  <2>4. lines' \in Seq([item : 0 .. MaxCmds, state : LineStates])
    BY DEF Lines, LineType
  <2>5. faults' \in 0 .. MaxFaults
    BY <1>1, RecorderAssumption DEF RecorderInv, TypeOK
  <2>. QED
    BY <1>1, <2>1, <2>2, <2>3, <2>4, <2>5 DEF RecorderInv, TypeOK
<1>7. Control'
  BY <1>1 DEF RecorderInv, Control, Working
<1>8. Accepted' = Accepted
  <2>1. \A y : InBuffer(y, pending', written') <=> InBuffer(y, pending, written)
    BY <1>1, <1>2, StateGrows, BufferDrained
  <2>. QED
    BY <1>1, <2>1, AcceptedBefore, AcceptedAfter
<1>9. pc # "stopped" /\ pc' # "stopped"
  BY <1>1 DEF Working
<1>10. promised' \subseteq Range(Stored)' /\ OnlyEndBroken(lines)'
  BY <1>1 DEF RecorderInv, Range, OnlyEndBroken
<1>. QED
  BY <1>1, <1>4, <1>6, <1>7, <1>8, <1>9, <1>10, LogKept DEF RecorderInv, AbstractStep

LEMMA FailedWriteStep ==
    ASSUME RecorderInv, Working, Fail, UNCHANGED <<deferred, meta>>,
           NEW x \in 0 .. MaxCmds, NEW o \in Leftovers, lines' = Put(lines, x, o)
    PROVE  RecorderInv' /\ AbstractStep
<1>1. o \in {"none", "part", "bare"}
  BY RecorderAssumption
<1>2. OnlyEndBroken(lines) /\ lines \in Lines
  BY StateTypes DEF RecorderInv
<1>3. lines' \in Lines /\ OnlyEndBroken(lines') /\ ItemsOf(Ended(lines')) = ItemsOf(Ended(lines))
  BY <1>1, <1>2, PutLeftover
<1>4. Stored' = Stored
  BY <1>3 DEF Stored, ItemsOf, Ended, Broken
<1>. QED
  BY <1>3, <1>4, FailStep

LEMMA OpenFailsStep ==
    ASSUME RecorderInv, OpenFails
    PROVE  RecorderInv' /\ AbstractStep
<1>1. Working /\ Fail /\ UNCHANGED <<deferred, meta, lines>>
  BY DEF OpenFails, Working
<1>2. lines' \in Lines /\ OnlyEndBroken(lines') /\ Stored' = Stored
  BY <1>1, StateTypes, LinesKept DEF RecorderInv
<1>. QED
  BY <1>1, <1>2, FailStep

LEMMA WriteFailsStep ==
    ASSUME RecorderInv, WriteSessionMetaFails \/ WriteRolloutItemFails
    PROVE  RecorderInv' /\ AbstractStep
<1>1. CASE WriteSessionMetaFails
  <2>1. PICK o \in Leftovers : lines' = Put(lines, 0, o)
    BY <1>1 DEF WriteSessionMetaFails
  <2>2. Working /\ Fail /\ UNCHANGED <<deferred, meta>> /\ 0 \in 0 .. MaxCmds
    BY <1>1, RecorderAssumption DEF WriteSessionMetaFails, Working
  <2>. QED
    BY <2>1, <2>2, FailedWriteStep
<1>2. CASE WriteRolloutItemFails
  <2>1. PICK o \in Leftovers : lines' = Put(lines, pending[written + 1], o)
    BY <1>2 DEF WriteRolloutItemFails
  <2>2. Working /\ Fail /\ UNCHANGED <<deferred, meta>> /\ pc = "items" /\ written < Len(pending)
    BY <1>2 DEF WriteRolloutItemFails, Working
  <2>3. pending[written + 1] \in UnderWay
    BY <2>2 DEF UnderWay
  <2>4. pending[written + 1] \in 0 .. MaxCmds
    BY <2>3, UnderWayIsOldest
  <2>. QED
    BY <2>1, <2>2, <2>4, FailedWriteStep
<1>. QED
  BY <1>1, <1>2

(* A command is done when nothing it covers is left to write.              *)
LEMMA WritePendingDoneStep ==
    ASSUME RecorderInv, WritePendingDone
    PROVE  RecorderInv' /\ AbstractStep
<1>1. /\ pc = "items" /\ written = Len(pending) /\ pending' = <<>> /\ written' = 0
      /\ cmd' = NoCmd /\ attempt' = 1
      /\ promised' \in {promised, promised \cup Before(cmd)}
      /\ reply' \in {Answer(cmd, "ok"), DropQueue(Answer(cmd, "ok"))}
      /\ \/ pc' = "stopped" /\ queue' = <<>>
         \/ pc' = "recv" /\ queue' = queue
      /\ UNCHANGED <<next, closed, writer, deferred, meta, lines, faults, crashes>>
  BY DEF WritePendingDone, Finish
<1>2. Working /\ ~meta
  BY <1>1 DEF RecorderInv, Control, Working
<1>3. cmd \in Command /\ cmd.n \in Nat /\ \A k \in 1 .. Len(queue) : cmd.n < queue[k].n
  BY <1>2, RecorderAssumption DEF RecorderInv, Control, Command, Cmds
<1>4. Stored' = Stored /\ Ascending'
  BY <1>1, LinesKept, StateGrows, GrowingEmpty DEF Ascending
<1>5. \A y : ~InBuffer(y, pending, written) /\ ~InBuffer(y, pending', written')
  <2>1. written + 1 .. Len(pending) = {}
    BY <1>1, StateTypes
  <2>2. 0 + 1 .. Len(<<>>) = {}
    OBVIOUS
  <2>. QED
    BY <1>1, <2>1, <2>2 DEF InBuffer
<1>6. Before(cmd) \subseteq Range(Stored)
  <2>. SUFFICES ASSUME NEW y \in Accepted, y < cmd.n, y \notin Range(Stored) PROVE FALSE
    BY DEF Before
  <2>1. InQueue(y, queue)
    BY <1>2, <1>5, AcceptedBefore
  <2>2. PICK k \in 1 .. Len(queue) : y = queue[k].n
    BY <2>1 DEF InQueue
  <2>. QED
    BY <1>3, <2>2, StateTypes
<1>7. promised \subseteq promised' /\ promised' \subseteq Range(Stored)
  BY <1>1, <1>6 DEF RecorderInv
<1>8. TypeOK'
  <2>1. queue' \in Seq([op : Ops, n : Cmds]) /\ Len(queue') <= ChannelCap
    <3>1. <<>> \in Seq([op : Ops, n : Cmds]) /\ Len(<<>>) <= ChannelCap
      BY RecorderAssumption
    <3>. QED
      BY <1>1, <3>1 DEF RecorderInv, TypeOK
  <2>2. reply' \in [Cmds -> {"none", "wait", "ok", "err"}]
    BY <1>1, <1>3, AnswerTypes
  <2>3. pending' \in Seq(Cmds) /\ written' \in 0 .. Len(pending')
    BY <1>1
  <2>4. promised' \subseteq 0 .. MaxCmds
    <3>1. \A y \in Range(Stored) : y \in 0 .. MaxCmds
      <4>1. Stored \in Seq(0 .. MaxCmds)
        BY StateTypes
      <4>2. \A i \in 1 .. Len(Stored) : Stored[i] \in 0 .. MaxCmds
        BY <4>1, ElementOfSeq
      <4>. QED
        BY <4>1, <4>2, RangeOf
    <3>. QED
      BY <1>7, <3>1
  <2>. QED
    BY <1>1, <2>1, <2>2, <2>3, <2>4 DEF RecorderInv, TypeOK
<1>9. Control' /\ OnlyEndBroken(lines)'
  BY <1>1, <1>4 DEF RecorderInv, Control, Working, OnlyEndBroken
<1>10. AbstractStep
  <2>1. CASE pc' = "stopped"
    BY <1>1, <1>4, <1>7, <2>1, LogEnds DEF AbstractStep
  <2>2. CASE pc' = "recv"
    <3>1. queue' = queue
      BY <1>1, <2>2
    <3>2. Accepted' = Accepted
      BY <1>1, <1>4, <1>5, <3>1, AcceptedBefore, AcceptedAfter
    <3>. QED
      BY <1>1, <1>4, <1>7, <2>2, <3>2, LogPromises DEF AbstractStep
  <2>. QED
    BY <1>1, <2>1, <2>2
<1>11. promised' \subseteq Range(Stored)'
  BY <1>4, <1>7 DEF Range
<1>. QED
  BY <1>4, <1>8, <1>9, <1>10, <1>11 DEF RecorderInv

-----------------------------------------------------------------------------
(* The process dies and is started again.                                  *)
LEMMA CrashStep ==
    ASSUME RecorderInv, Crash
    PROVE  RecorderInv' /\ AbstractStep
<1>1. /\ pc # "stopped" /\ crashes < MaxCrashes /\ crashes' = crashes + 1
      /\ pc' = "stopped" /\ cmd' = NoCmd /\ attempt' = 1 /\ written' = 0
      /\ pending' = <<>> /\ meta' = FALSE /\ queue' = <<>> /\ closed' = TRUE
      /\ reply' = DropQueue(reply)
      /\ UNCHANGED <<next, writer, deferred, promised, faults>>
  BY DEF Crash
<1>2. OnlyEndBroken(lines) /\ lines \in Lines
  BY StateTypes DEF RecorderInv
<1>3. Growing(Stored, <<>>, 0, <<>>, next)
  BY StateGrows, GrowingEmpty
<1>. DEFINE Result ==
       /\ lines' \in Lines /\ OnlyEndBroken(lines)'
       /\ Growing(Stored', <<>>, 0, <<>>, next) /\ promised \subseteq Range(Stored')
       /\ Log!Next
<1>4. ASSUME lines' \in Lines, OnlyEndBroken(lines'), Stored' = Stored PROVE Result
  <2>1. promised \subseteq Range(Stored')
    BY <1>4 DEF RecorderInv
  <2>2. Log!Next
    BY <1>1, <1>4, LogEnds DEF RecorderInv
  <2>. QED
    BY <1>3, <1>4, <2>1, <2>2 DEF OnlyEndBroken
<1>5. ASSUME lines' = lines PROVE Result
  BY <1>2, <1>4, <1>5, LinesKept
<1>6. ASSUME lines' # lines PROVE Result
  <2>1. PICK x \in UnderWay, o \in (Leftovers \ {"none"}) \cup {"whole"} : lines' = Put(lines, x, o)
    BY <1>6 DEF Crash
  <2>2. /\ x \in 0 .. MaxCmds /\ x \in Accepted \ Range(Stored)
        /\ \A y \in Accepted \ Range(Stored) : x <= y
    BY UnderWayIsOldest
  <2>3. CASE o # "whole"
    <3>1. o \in {"none", "part", "bare"}
      BY <2>3, RecorderAssumption
    <3>2. lines' \in Lines /\ OnlyEndBroken(lines') /\ ItemsOf(Ended(lines')) = ItemsOf(Ended(lines))
      BY <1>2, <2>1, <2>2, <3>1, PutLeftover
    <3>3. Stored' = Stored
      BY <3>2 DEF Stored, ItemsOf, Ended, Broken
    <3>. QED
      BY <1>4, <3>2, <3>3
  <2>4. CASE o = "whole"
    <3>1. lines' \in Lines /\ OnlyEndBroken(lines') /\ ItemsOf(Ended(lines')) = Append(ItemsOf(Ended(lines)), x)
      BY <1>2, <2>1, <2>2, <2>4, PutWhole
    <3>2. Stored' = Append(Stored, x)
      BY <3>1 DEF Stored, ItemsOf, Ended, Broken
    <3>3. Range(Stored') = Range(Stored) \cup {x}
      <4>1. Stored \in Seq(Nat)
        BY StateGrows
      <4>2. x \in Nat
        BY <2>2, RecorderAssumption
      <4>3. Range(Append(Stored, x)) = Range(Stored) \cup {x}
        BY <4>1, <4>2, RangeGrows
      <4>. QED
        BY <3>2, <4>3
    <3>4. Append(Stored, x) \in Seq(Nat)
      <4>1. x \in Nat
        BY <2>2, RecorderAssumption
      <4>. QED
        BY <4>1, StateGrows, AppendProperties
    <3>5. Growing(Append(Stored, x), <<>>, 0, <<>>, next)
      <4>1. CASE pc = "meta" /\ meta
        <5>1. x = 0 /\ Stored = <<>>
          BY <4>1 DEF UnderWay, RecorderInv, Control
        <5>2. Growing(Append(Stored, x), pending, written, queue, next)
          BY <5>1, StateGrows, GrowingMeta
        <5>. QED
          BY <3>4, <5>2, StateGrows, GrowingEmpty
      <4>2. CASE ~(pc = "meta" /\ meta)
        <5>1. written < Len(pending) /\ x = pending[written + 1]
          BY <4>2 DEF UnderWay
        <5>2. Growing(Append(Stored, x), pending, written + 1, queue, next)
          BY <5>1, StateGrows, GrowingWrite
        <5>3. written + 1 \in Nat
          BY StateGrows
        <5>. QED
          BY <3>4, <5>2, <5>3, StateGrows, GrowingEmpty
      <4>. QED
        BY <4>1, <4>2
    <3>6. promised \subseteq Range(Stored')
      BY <3>3 DEF RecorderInv
    <3>7. Log!Next
      BY <1>1, <2>2, <3>2, <3>6, LogEndsLate
    <3>. QED
      BY <3>1, <3>2, <3>5, <3>6, <3>7 DEF OnlyEndBroken
  <2>. QED
    BY <2>3, <2>4
<1>7. Result
  BY <1>5, <1>6
<1>8. TypeOK'
  <2>1. queue' \in Seq([op : Ops, n : Cmds]) /\ Len(queue') <= ChannelCap
    BY <1>1, RecorderAssumption
  <2>2. reply' \in [Cmds -> {"none", "wait", "ok", "err"}]
    BY <1>1 DEF RecorderInv, TypeOK, DropQueue
  <2>3. pending' \in Seq(Cmds) /\ written' \in 0 .. Len(pending')
    BY <1>1
  <2>4. lines' \in Seq([item : 0 .. MaxCmds, state : LineStates])
    BY <1>7 DEF Lines, LineType
  <2>5. crashes' \in 0 .. MaxCrashes
    BY <1>1, RecorderAssumption DEF RecorderInv, TypeOK
  <2>. QED
    BY <1>1, <2>1, <2>2, <2>3, <2>4, <2>5 DEF RecorderInv, TypeOK
<1>9. Ascending' /\ Control'
  BY <1>1, <1>7 DEF Ascending, Control, Working
<1>10. promised' \subseteq Range(Stored)'
  BY <1>1, <1>7 DEF Range
<1>. QED
  BY <1>7, <1>8, <1>9, <1>10 DEF RecorderInv, AbstractStep

LEMMA ResumeStep ==
    ASSUME RecorderInv, Resume
    PROVE  RecorderInv' /\ AbstractStep
<1>1. /\ pc = "stopped" /\ pc' = "recv" /\ closed' = FALSE
      /\ writer' = TRUE /\ deferred' = FALSE /\ meta' = FALSE /\ pending' = <<>>
      /\ UNCHANGED <<queue, next, reply, cmd, attempt, written>>
      /\ UNCHANGED <<lines, promised, faults, crashes>>
  BY DEF Resume
<1>2. queue = <<>> /\ written = 0
  BY <1>1 DEF RecorderInv, Control
<1>3. Stored' = Stored
  BY <1>1, LinesKept
<1>4. Ascending'
  BY <1>1, <1>2, <1>3, StateGrows, GrowingEmpty DEF Ascending
<1>5. TypeOK'
  <2>1. pending' \in Seq(Cmds) /\ written' \in 0 .. Len(pending')
    BY <1>1, <1>2
  <2>. QED
    BY <1>1, <2>1 DEF RecorderInv, TypeOK
<1>6. Control' /\ OnlyEndBroken(lines)'
  BY <1>1, <1>2 DEF RecorderInv, Control, Working, OnlyEndBroken
<1>7. Accepted' = Range(Stored)
  BY <1>1, <1>2, <1>3, AcceptedAfter, NoneWaits
<1>8. Log!Reopen
  BY <1>1, <1>3, <1>7 DEF Log!Reopen
<1>. QED
  BY <1>1, <1>3, <1>4, <1>5, <1>6, <1>8 DEF RecorderInv, AbstractStep, Log!Next

-----------------------------------------------------------------------------
(* Damage: a line that is written behind a broken end is the one it spoils. *)
Damage(ls) == Cardinality(Bad(ls)) + (IF Broken(ls) THEN 1 ELSE 0)

LEMMA BadPlaced ==
    ASSUME NEW ls \in Lines, OnlyEndBroken(ls), NEW l \in LineType
    PROVE  LET ps == IF Broken(ls) THEN Append(SubSeq(ls, 1, Len(ls) - 1), l) ELSE Append(ls, l)
           IN  /\ Cardinality(Bad(ls)) \in Nat /\ Cardinality(Bad(ps)) \in Nat
               /\ l.state # "bad" => Cardinality(Bad(ps)) = Cardinality(Bad(ls))
               /\ l.state = "bad" => Cardinality(Bad(ps)) <= Cardinality(Bad(ls)) + 1
               /\ Broken(ps) <=> l.state \in {"bare", "part"}
<1>. DEFINE n == IF Broken(ls) THEN Len(ls) - 1 ELSE Len(ls)
            ps == IF Broken(ls) THEN Append(SubSeq(ls, 1, Len(ls) - 1), l) ELSE Append(ls, l)
<1>1. /\ n \in Nat /\ n <= Len(ls)
      /\ ps \in Lines /\ Len(ps) = n + 1
      /\ \A i \in 1 .. n : ps[i] = ls[i] /\ ls[i].state \in {"whole", "bad"}
      /\ ps[n + 1] = l
  BY Placed
<1>2. Len(ls) \in Nat /\ (Broken(ls) => Len(ls) > 0)
  BY LineTypes
<1>3. \A i \in 1 .. Len(ls) : i \in 1 .. n \/ (Broken(ls) /\ i = Len(ls))
  BY <1>2
<1>4. Broken(ls) => ls[Len(ls)].state # "bad"
  BY DEF Broken
<1>. HIDE DEF n, ps
<1>5. Bad(ls) = {i \in 1 .. n : ls[i].state = "bad"}
  <2>1. \A i \in Bad(ls) : i \in 1 .. n
    BY <1>3, <1>4 DEF Bad
  <2>2. \A i \in 1 .. n : i \in 1 .. Len(ls)
    BY <1>1, <1>2
  <2>. QED
    BY <2>1, <2>2 DEF Bad
<1>6. Bad(ps) = Bad(ls) \cup (IF l.state = "bad" THEN {n + 1} ELSE {})
  <2>1. \A i \in 1 .. Len(ps) : i \in 1 .. n \/ i = n + 1
    BY <1>1
  <2>2. \A i \in 1 .. n : i \in 1 .. Len(ps) /\ n + 1 \in 1 .. Len(ps)
    BY <1>1
  <2>3. n + 1 \in 1 .. Len(ps)
    BY <1>1
  <2>. QED
    BY <1>1, <1>5, <2>1, <2>2, <2>3 DEF Bad
<1>7. IsFiniteSet(Bad(ls)) /\ IsFiniteSet(Bad(ps))
  <2>1. IsFiniteSet(1 .. n) /\ IsFiniteSet(1 .. Len(ps))
    BY <1>1, FS_Interval
  <2>2. Bad(ls) \subseteq 1 .. n /\ Bad(ps) \subseteq 1 .. Len(ps)
    BY <1>5 DEF Bad
  <2>. QED
    BY <2>1, <2>2, FS_Subset
<1>8. Cardinality(Bad(ls)) \in Nat /\ Cardinality(Bad(ps)) \in Nat
  BY <1>7, FS_CardinalityType
<1>9. Broken(ps) <=> l.state \in {"bare", "part"}
  <2>1. ps # <<>> /\ ps[Len(ps)] = l
    BY <1>1, EmptySeq DEF Lines
  <2>. QED
    BY <2>1 DEF Broken
<1>10. l.state = "bad" => Cardinality(Bad(ps)) <= Cardinality(Bad(ls)) + 1
  <2>1. Cardinality(Bad(ls) \cup {n + 1}) <= Cardinality(Bad(ls)) + 1
    <3>1. Cardinality(Bad(ls) \cup {n + 1}) = IF n + 1 \in Bad(ls) THEN Cardinality(Bad(ls))
                                              ELSE Cardinality(Bad(ls)) + 1
      BY <1>7, FS_AddElement
    <3>. QED
      BY <1>8, <3>1
  <2>. QED
    BY <1>6, <2>1
<1>11. l.state # "bad" => Bad(ps) = Bad(ls)
  BY <1>6
<1>. QED
  BY <1>8, <1>9, <1>10, <1>11 DEF ps

LEMMA PutDamage ==
    ASSUME NEW ls \in Lines, OnlyEndBroken(ls), NEW x \in 0 .. MaxCmds
    PROVE  /\ Damage(ls) \in Nat
           /\ Damage(Put(ls, x, "whole")) \in Nat
           /\ Damage(Put(ls, x, "whole")) <= Damage(ls)
           /\ \A o \in {"none", "part", "bare"} :
                 /\ Damage(Put(ls, x, o)) \in Nat
                 /\ Damage(Put(ls, x, o)) <= Damage(ls) + 1
<1>1. \A s \in LineStates : Line(x, s) \in LineType /\ Line(x, s).state = s
  BY DEF Line, LineType
<1>2. {"whole", "bad", "part", "bare"} \subseteq LineStates
  BY DEF LineStates
<1>3. CASE Broken(ls)
  <2>. DEFINE ps(s) == Append(SubSeq(ls, 1, Len(ls) - 1), Line(x, s))
  <2>1. \A s \in LineStates :
          /\ Cardinality(Bad(ls)) \in Nat /\ Cardinality(Bad(ps(s))) \in Nat
          /\ s # "bad" => Cardinality(Bad(ps(s))) = Cardinality(Bad(ls))
          /\ s = "bad" => Cardinality(Bad(ps(s))) <= Cardinality(Bad(ls)) + 1
          /\ Broken(ps(s)) <=> s \in {"bare", "part"}
    BY <1>1, <1>3, BadPlaced
  <2>2. /\ Put(ls, x, "whole") = ps("bad")
        /\ \A o \in {"part", "bare"} : Put(ls, x, o) = ps("part")
        /\ Put(ls, x, "none") = ls
    BY <1>3 DEF Put
  <2>. HIDE DEF ps
  <2>3. Damage(ls) = Cardinality(Bad(ls)) + 1 /\ Cardinality(Bad(ls)) \in Nat
    BY <1>2, <1>3, <2>1 DEF Damage
  <2>4. Damage(ps("bad")) = Cardinality(Bad(ps("bad"))) /\ Damage(ps("bad")) \in Nat
        /\ Damage(ps("bad")) <= Cardinality(Bad(ls)) + 1
    BY <1>2, <2>1 DEF Damage
  <2>5. Damage(ps("part")) = Cardinality(Bad(ls)) + 1
    BY <1>2, <2>1 DEF Damage
  <2>. QED
    BY <2>2, <2>3, <2>4, <2>5
<1>4. CASE ~Broken(ls)
  <2>. DEFINE ps(s) == Append(ls, Line(x, s))
  <2>1. \A s \in LineStates :
          /\ Cardinality(Bad(ls)) \in Nat /\ Cardinality(Bad(ps(s))) \in Nat
          /\ s # "bad" => Cardinality(Bad(ps(s))) = Cardinality(Bad(ls))
          /\ Broken(ps(s)) <=> s \in {"bare", "part"}
    BY <1>1, <1>4, BadPlaced
  <2>2. /\ \A o \in {"whole", "part", "bare"} : Put(ls, x, o) = ps(o)
        /\ Put(ls, x, "none") = ls
    BY <1>4 DEF Put
  <2>. HIDE DEF ps
  <2>3. Damage(ls) = Cardinality(Bad(ls)) /\ Cardinality(Bad(ls)) \in Nat
    BY <1>2, <1>4, <2>1 DEF Damage
  <2>4. Damage(ps("whole")) = Cardinality(Bad(ls))
    BY <1>2, <2>1 DEF Damage
  <2>5. \A o \in {"part", "bare"} : Damage(ps(o)) = Cardinality(Bad(ls)) + 1
    BY <1>2, <2>1 DEF Damage
  <2>. QED
    BY <2>2, <2>3, <2>4, <2>5
<1>. QED
  BY <1>3, <1>4

(* Every step: a whole line adds no damage, and whatever breaks the end of *)
(* the file is counted as a failure or a crash.                            *)
LEMMA DamageStep ==
    ASSUME RecorderInv, DamageInv, [Next]_vars
    PROVE  DamageInv'
<1>0. /\ lines \in Lines /\ OnlyEndBroken(lines) /\ 0 \in 0 .. MaxCmds
      /\ faults \in Nat /\ crashes \in Nat
  BY StateTypes, RecorderAssumption DEF RecorderInv, TypeOK
<1>1. Damage(lines) \in Nat /\ Damage(lines) <= faults + crashes
  BY <1>0, PutDamage DEF DamageInv, Damage
<1>. DEFINE Kept == faults' = faults /\ crashes' = crashes
            Counted == faults' + crashes' = faults + crashes + 1
<1>2. \/ lines' = lines /\ (Kept \/ Counted)
      \/ \E x \in 0 .. MaxCmds : lines' = Put(lines, x, "whole") /\ (Kept \/ Counted)
      \/ \E x \in 0 .. MaxCmds, o \in {"none", "part", "bare"} : lines' = Put(lines, x, o) /\ Counted
  <2>0. Fail => Counted
    BY <1>0 DEF Fail, Finish
  <2>1. \A x \in UnderWay : x \in 0 .. MaxCmds
    BY UnderWayIsOldest
  <2>2. CASE Crash
    <3>1. Counted
      BY <1>0, <2>2 DEF Crash
    <3>2. CASE lines' = lines
      BY <3>1, <3>2
    <3>3. CASE lines' # lines
      <4>1. PICK x \in UnderWay, o \in (Leftovers \ {"none"}) \cup {"whole"} : lines' = Put(lines, x, o)
        BY <2>2, <3>3 DEF Crash
      <4>2. o = "whole" \/ o \in {"none", "part", "bare"}
        BY RecorderAssumption
      <4>. QED
        BY <2>1, <3>1, <4>1, <4>2
    <3>. QED
      BY <3>2, <3>3
  <2>3. CASE WriteSessionMeta
    BY <1>0, <2>3 DEF WriteSessionMeta
  <2>4. CASE WriteRolloutItem
    <3>1. pending[written + 1] \in UnderWay
      BY <2>4 DEF WriteRolloutItem, UnderWay
    <3>. QED
      BY <2>1, <2>4, <3>1 DEF WriteRolloutItem
  <2>5. CASE WriteSessionMetaFails
    BY <1>0, <2>0, <2>5, RecorderAssumption DEF WriteSessionMetaFails
  <2>6. CASE WriteRolloutItemFails
    <3>1. pending[written + 1] \in UnderWay
      BY <2>6 DEF WriteRolloutItemFails, UnderWay
    <3>. QED
      BY <2>0, <2>1, <2>6, <3>1, RecorderAssumption DEF WriteRolloutItemFails
  <2>7. CASE OpenFails
    BY <2>0, <2>7 DEF OpenFails
  <2>8. CASE \/ RecvAdd \/ RecvBarrier \/ RecvNothingToDo \/ WriterEnds
             \/ EnsureWriterOpen \/ WritePendingDone \/ Discard \/ Resume
             \/ \E op \in Ops : Send(op)
             \/ UNCHANGED vars
    BY <2>8 DEF RecvAdd, RecvBarrier, RecvNothingToDo, WriterEnds, EnsureWriterOpen,
                WritePendingDone, Discard, Resume, Send, vars
  <2>. HIDE DEF Kept, Counted
  <2>. QED
    BY <2>2, <2>3, <2>4, <2>5, <2>6, <2>7, <2>8 DEF Next, Writer
<1>3. Kept \/ Counted => faults' + crashes' >= faults + crashes
  BY <1>0
<1>4. faults' + crashes' \in Int /\ Damage(lines') <= faults' + crashes'
  <2>1. CASE lines' = lines /\ (Kept \/ Counted)
    BY <1>0, <1>1, <2>1
  <2>2. ASSUME NEW x \in 0 .. MaxCmds, lines' = Put(lines, x, "whole"), Kept \/ Counted
        PROVE  faults' + crashes' \in Int /\ Damage(lines') <= faults' + crashes'
    <3>1. Damage(lines') \in Nat /\ Damage(lines') <= Damage(lines)
      BY <1>0, <2>2, PutDamage
    <3>. QED
      BY <1>0, <1>1, <2>2, <3>1
  <2>3. ASSUME NEW x \in 0 .. MaxCmds, NEW o \in {"none", "part", "bare"},
               lines' = Put(lines, x, o), Counted
        PROVE  faults' + crashes' \in Int /\ Damage(lines') <= faults' + crashes'
    <3>1. Damage(lines') \in Nat /\ Damage(lines') <= Damage(lines) + 1
      BY <1>0, <2>3, PutDamage
    <3>. QED
      BY <1>0, <1>1, <2>3, <3>1
  <2>. HIDE DEF Kept, Counted
  <2>. QED
    BY <1>2, <2>1, <2>2, <2>3
<1>. QED
  BY <1>4 DEF DamageInv, Damage, Bad, Broken

-----------------------------------------------------------------------------
LEMMA RecorderStep ==
    ASSUME RecorderInv, [Next]_vars
    PROVE  RecorderInv' /\ AbstractStep
<1>1. CASE UNCHANGED vars
  <2>1. UNCHANGED <<queue, next, reply, closed, pc, cmd, attempt, written>>
        /\ UNCHANGED <<writer, deferred, meta, pending, lines, promised, faults, crashes>>
    BY <1>1 DEF vars, callVars, taskVars, stateVars
  <2>2. Stored' = Stored
    BY <2>1, LinesKept
  <2>3. TypeOK'
    BY <2>1 DEF RecorderInv, TypeOK
  <2>4. Ascending' /\ Control' /\ OnlyEndBroken(lines)'
    BY <2>1, <2>2 DEF RecorderInv, Ascending, Control, Working, OnlyEndBroken
  <2>5. Accepted' = Accepted
    BY <2>1, <2>2 DEF Accepted, Unwritten, Queued, IsAdd
  <2>. QED
    BY <2>1, <2>2, <2>3, <2>4, <2>5, LogKept DEF RecorderInv, AbstractStep
<1>2. CASE Next
  BY <1>2, SendStep, DiscardStep, RecvAddStep, RecvBarrierStep, RecvNothingToDoStep,
     WriterEndsStep, EnsureWriterOpenStep, OpenFailsStep, WriteSessionMetaStep,
     WriteRolloutItemStep, WriteFailsStep, WritePendingDoneStep, CrashStep, ResumeStep
     DEF Next, Writer
<1>. QED
  BY <1>1, <1>2

LEMMA RecorderAlways == Spec => []RecorderInv
<1>1. RecorderInv /\ [Next]_vars => RecorderInv'
  BY RecorderStep
<1>. QED
  BY <1>1, InitRecorder, PTL DEF Spec

(* The state of the recorder, its writer task and its file stays within    *)
(* its types whatever fails, in particular the channel within its capacity *)
(* and the count of written items within the buffer.                       *)
THEOREM RecorderTypes == Spec => []TypeOK
<1>1. RecorderInv => TypeOK
  BY DEF RecorderInv
<1>. QED
  BY <1>1, RecorderAlways, PTL

(* The file holds the items in the order of their calls, each once and the *)
(* meta line first, for any number of failed writes, crashes and resumes.  *)
THEOREM FileAlwaysInOrder == Spec => []FileInOrder
<1>1. RecorderInv => FileInOrder
  BY DEF RecorderInv, Ascending, Growing, Increasing, FileInOrder
<1>. QED
  BY <1>1, RecorderAlways, PTL

(* There are never more damaged lines than there were failed file          *)
(* operations and crashes.                                                 *)
THEOREM DamageAlwaysBounded == Spec => []DamageBounded
<1>1. RecorderInv /\ DamageInv /\ [Next]_vars => DamageInv'
  BY DamageStep
<1>2. RecorderInv /\ DamageInv => DamageBounded
  <2>. SUFFICES ASSUME RecorderInv, DamageInv PROVE DamageBounded
    OBVIOUS
  <2>1. /\ IsFiniteSet(Bad(lines)) /\ faults \in Nat /\ crashes \in Nat
    <3>1. lines \in Lines /\ Len(lines) \in Nat
      BY StateTypes, LineTypes
    <3>2. IsFiniteSet(1 .. Len(lines)) /\ Bad(lines) \subseteq 1 .. Len(lines)
      BY <3>1, FS_Interval DEF Bad
    <3>. QED
      BY <3>2, FS_Subset, RecorderAssumption DEF RecorderInv, TypeOK
  <2>2. Cardinality(Bad(lines)) \in Nat
    BY <2>1, FS_CardinalityType
  <2>. QED
    BY <2>1, <2>2 DEF DamageInv, DamageBounded, Bad
<1>. QED
  BY <1>1, <1>2, InitRecorder, RecorderAlways, PTL DEF Spec

(* The recorder implements the durable log: nothing that was accepted is   *)
(* dropped, written twice or out of order while it runs, a successful      *)
(* flush, persist or shutdown covers only what is in the file, and a crash *)
(* or a shutdown loses only what was not stored.                           *)
THEOREM RecorderImplementsDurableLog == Spec => ImplementsDurableLog
<1>1. Init => Log!Init
  <2>. SUFFICES ASSUME Init PROVE Log!Init
    OBVIOUS
  <2>1. lines = <<>> /\ queue = <<>> /\ pending = <<>> /\ written = 0 /\ meta = TRUE
        /\ pc = "recv" /\ promised = {}
    BY DEF Init
  <2>2. Stored = <<>>
    <3>1. lines \in Lines /\ ~Broken(lines) /\ Len(lines) = 0
      BY <2>1 DEF Lines, Broken
    <3>2. Stored \in Seq(0 .. MaxCmds) /\ Len(Stored) = 0
      BY <3>1, EndedItems DEF Stored
    <3>. QED
      BY <3>2, EmptySeq
  <2>3. Range(Stored) = {}
    BY <2>2 DEF Range
  <2>4. Accepted = {0}
    BY <2>1, <2>3, AcceptedBefore, NoneWaits
  <2>. QED
    BY <2>1, <2>2, <2>4 DEF Log!Init
<1>2. RecorderInv /\ [Next]_vars => [Log!Next]_(Log!vars)
  BY RecorderStep DEF AbstractStep
<1>. QED
  BY <1>1, <1>2, RecorderAlways, PTL DEF Spec, ImplementsDurableLog, Log!Spec

=============================================================================
