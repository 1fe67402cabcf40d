--------------------------- MODULE ReadoutProofs ---------------------------
(***************************************************************************)
(* Proofs about Readout, for every set of instances, every number of       *)
(* channels, every width of a counter's word and every order in which the  *)
(* accesses of several threads, pulses, gates, C and Z, and faults fall.   *)
(***************************************************************************)
EXTENDS Readout, FiniteSetTheorems, TLAPS

(* The operations of a class, by their names.                              *)
ListNames == {"ReadAll", "ReadClearAll"}
NamesOf(k) ==
    CASE k = "Counter_S0301" -> {"Init", "Test", "Read2", "Read2clear", "Reset", "ReadClear",
                                 "Increment", "CZReset"}
      [] k \in {"QDC_C0312", "TDC_C0309"} -> ListNames \cup {"Read", "ReadClearLAM", "Reset", "CZReset"}
      [] k = "TDC_C0301" -> {"Read", "ReadClear", "Reset", "Test", "CZReset"}
      [] k = "LeCroy2249" -> {"read", "reset", "checkLAM", "LeCroy2249"}

Names == {"none", "Init", "Test", "Read2", "Read2clear", "Reset", "ReadClear", "Increment",
          "CZReset", "ReadAll", "ReadClearAll", "Read", "ReadClearLAM", "read", "reset",
          "checkLAM", "LeCroy2249"}

Functions_ == {"F0", "F2", "F8", "F9", "F10", "F25", "F26", "C", "Z", "copy"}
Acts == [f : Functions_, a : Channels]

(* What is due in an operation o of the class k when n accesses are left.  *)
Fits(k, o, x, n) ==
    /\ o.name = "Read2" => n \in 1..2 /\ x = A("F0", 2 * o.channel + n - 1)
    /\ o.name = "Read2clear" =>
          \/ n = 3 /\ x = A("F0", 2 * o.channel + 1)
          \/ n = 2 /\ x = A("F2", 2 * o.channel)
          \/ n = 1 /\ x = A("F9", 2 * o.channel + 1)
    /\ o.name = "CZReset" => n \in 1..2
    /\ o.name = "CZReset" <=> x.f \in {"C", "Z"}
    /\ o.name \in ListNames => n \in 1..(Passed(k) + 1)
    /\ o.name \in ListNames /\ n = 1 <=> x.f = "copy"
    /\ o.name \in ListNames /\ n # 1 => x.f \in {"F0", "F2"} /\ x.a = Passed(k) + 1 - n
    /\ k = "Counter_S0301" => x.f \in {"F0", "F2", "F9", "F25", "C", "Z"}
    /\ k # "Counter_S0301" => x.f # "F25"
    /\ k # "Counter_S0301" /\ o.name \notin ListNames \cup {"Test"} /\ x.f \in {"F0", "F2"} =>
          x.a = o.channel
    /\ k = "LeCroy2249" /\ o.name # "read" => x.f \notin {"F0", "F2"}
    /\ x.f = "F25" => \E p \in Pairs : x.a = 2 * p
    /\ k = "Counter_S0301" /\ o.name \notin {"Read2", "Read2clear"} => x.f # "F0"

(* How many accesses an operation of which there are invariants begins     *)
(* with.                                                                   *)
Longest(k, o, n) ==
    /\ o.name \in {"Read2", "CZReset"} => n = 2
    /\ o.name = "Read2clear" => n = 3
    /\ o.name \in ListNames => n = Passed(k) + 1

(* The channels, and the pairs of them that make a counter.                *)
LEMMA Sizes ==
    /\ nChannels \in Nat \ {0, 1} /\ nChannels \div 2 \in Nat /\ nChannels = 2 * (nChannels \div 2)
    /\ 0 \in Channels /\ 0 \in Pairs /\ Pairs \subseteq Channels /\ Channels \subseteq Nat
  <1>1. nChannels \in Nat \ {0} /\ nChannels % 2 = 0
    BY ReadoutAssumption
  <1>2. /\ nChannels \in Nat \ {0, 1} /\ nChannels \div 2 \in Nat /\ nChannels = 2 * (nChannels \div 2)
    BY <1>1
  <1>3. QED
    BY <1>2 DEF Pairs, Channels

(* The two channels of a pair.                                             *)
LEMMA PairOf ==
    ASSUME NEW p \in Pairs
    PROVE  /\ p \in Nat /\ 2 * p \in Channels /\ 2 * p + 1 \in Channels /\ 2 * p # 2 * p + 1
           /\ (2 * p) \div 2 = p /\ (2 * p + 1) \div 2 = p
           /\ (2 * p) % 2 = 0 /\ (2 * p + 1) % 2 = 1
  BY Sizes DEF Pairs, Channels

(* The pair of a channel.                                                  *)
LEMMA ChannelOf ==
    ASSUME NEW c \in Channels
    PROVE  /\ c \in Nat /\ c \div 2 \in Pairs /\ c % 2 \in {0, 1}
           /\ c = 2 * (c \div 2) \/ c = 2 * (c \div 2) + 1
           /\ c % 2 = 0 <=> c = 2 * (c \div 2)
  BY Sizes DEF Pairs, Channels

(* No more of a list is passed than there are channels.                    *)
LEMMA PassedRange ==
    ASSUME NEW k PROVE Passed(k) \in Nat /\ Passed(k) <= nChannels
  BY ReadoutAssumption, Sizes DEF Passed

(* The accesses to all the channels, one after another.                    *)
LEMMA All_ ==
    ASSUME NEW f \in Functions_
    PROVE  /\ Each(f) \in Seq(Acts) /\ Len(Each(f)) = nChannels
           /\ \A n \in 1..nChannels : Each(f)[n] = A(f, n - 1)
  <1>1. \A n \in 1..nChannels : A(f, n - 1) \in Acts
    BY Sizes DEF Acts, A, Channels
  <1>2. QED
    BY <1>1, Sizes DEF Each

(* The lists that are passed to ListAF, and the copy of what they bring.   *)
LEMMA Lists ==
    ASSUME NEW k \in {"QDC_C0312", "TDC_C0309"}, NEW n \in ListNames
    PROVE  /\ ListAF(k, n) \in Seq(Acts) /\ Len(ListAF(k, n)) = Passed(k) + 1
           /\ \A j \in 1..Passed(k) : \/ ListAF(k, n)[j] = A("F0", j - 1)
                                     \/ ListAF(k, n)[j] = A("F2", j - 1)
           /\ ListAF(k, n)[Passed(k) + 1] = A("copy", 0)
  <1> DEFINE e == Entries(k, n)
             s == SubSeq(e, 1, Passed(k))
             t == A("copy", 0)
  <1>1. /\ e \in Seq(Acts) /\ Len(e) >= nChannels /\ Len(e) \in Nat
        /\ \A j \in 1..nChannels : e[j] = A("F0", j - 1) \/ e[j] = A("F2", j - 1)
    <2>1. /\ Each("F0") \in Seq(Acts) /\ Len(Each("F0")) = nChannels
          /\ \A j \in 1..nChannels : Each("F0")[j] = A("F0", j - 1)
      BY All_ DEF Functions_
    <2>2. /\ Each("F2") \in Seq(Acts) /\ Len(Each("F2")) = nChannels
          /\ \A j \in 1..nChannels : Each("F2")[j] = A("F2", j - 1)
      BY All_ DEF Functions_
    <2>3. A("F10", 0) \in Acts
      BY Sizes DEF Acts, A, Functions_
    <2>4. e \in {Each("F0"), Each("F2"), Append(Each("F0"), A("F10", 0))}
      BY DEF Entries
    <2> HIDE DEF e
    <2>5. CASE e = Append(Each("F0"), A("F10", 0))
      BY <2>1, <2>3, <2>5, Sizes
    <2>6. QED
      BY <2>1, <2>2, <2>4, <2>5, Sizes
  <1>2. Passed(k) \in Nat /\ Passed(k) <= nChannels
    BY PassedRange
  <1> HIDE DEF e
  <1>3. s \in Seq(Acts) /\ Len(s) = Passed(k) /\ \A j \in 1..Passed(k) : s[j] = e[j]
    BY <1>1, <1>2, Sizes
  <1>4. t \in Acts
    BY Sizes DEF Acts, A, Functions_
  <1> HIDE DEF s, t
  <1>5. /\ Append(s, t) \in Seq(Acts) /\ Len(Append(s, t)) = Passed(k) + 1
        /\ \A j \in 1..Passed(k) : Append(s, t)[j] = s[j]
        /\ Append(s, t)[Passed(k) + 1] = t
    BY <1>2, <1>3, <1>4
  <1>6. ListAF(k, n) = Append(s, t)
    BY DEF ListAF, s, t, e
  <1>7. \A j \in 1..Passed(k) : s[j] = A("F0", j - 1) \/ s[j] = A("F2", j - 1)
    BY <1>1, <1>2, <1>3, Sizes
  <1>8. QED
    BY <1>5, <1>6, <1>7 DEF t

(* An access that is due in the operation o of the class k, and a sequence *)
(* of such accesses.                                                       *)
Program(k, o, s) ==
    /\ s \in Seq(Acts) /\ Longest(k, o, Len(s))
    /\ \A j \in 1..Len(s) : Fits(k, o, s[j], Len(s) - j + 1)

(* Every operation is such a program.                                      *)
LEMMA Programs ==
    ASSUME NEW k \in Classes, NEW c \in Calls(k)
    PROVE  /\ c[1] \in NamesOf(k) /\ c[1] \in Names \ {"none"} /\ c[2] \in Channels
           /\ c[1] \in {"Read2", "Read2clear"} => c[2] \in Pairs
           /\ Program(k, [name |-> c[1], channel |-> c[2]], c[3])
  <1> DEFINE o == [name |-> c[1], channel |-> c[2]]
             Goal == /\ c[1] \in NamesOf(k) /\ c[1] \in Names \ {"none"} /\ c[2] \in Channels
                     /\ c[1] \in {"Read2", "Read2clear"} => c[2] \in Pairs
                     /\ Program(k, o, c[3])
  <1>2. ASSUME c[1] \in NamesOf(k) \ (ListNames \cup {"Read2", "Read2clear", "CZReset"}),
               c[2] \in Channels,
               NEW f \in Functions_ \ {"C", "Z", "copy"}, NEW a \in Channels, c[3] = Once(f, a),
               k = "Counter_S0301" => f \in {"F2", "F9", "F25"},
               k # "Counter_S0301" => f # "F25" /\ (f \in {"F0", "F2"} => a = c[2]),
               k = "LeCroy2249" /\ c[1] # "read" => f \notin {"F0", "F2"},
               f = "F25" => \E p \in Pairs : a = 2 * p
        PROVE  Goal
    <2>1. c[3] \in Seq(Acts) /\ Len(c[3]) = 1 /\ c[3][1] = A(f, a)
      BY <1>2 DEF Once, A, Acts
    <2>2. Fits(k, o, c[3][1], 1)
      BY <1>2, <2>1 DEF Fits, A
    <2>3. Program(k, o, c[3])
      BY <1>2, <2>1, <2>2 DEF Program, Longest
    <2>4. QED
      BY <1>2, <2>3 DEF NamesOf, Names, ListNames, Classes
  <1>3. ASSUME c[1] \in NamesOf(k) \ (ListNames \cup {"Read2", "Read2clear", "CZReset"}),
               c[2] \in Channels,
               NEW f \in {"F2", "F9"}, c[3] = Each(f),
               k # "Counter_S0301" => c[1] = "Test",
               k # "LeCroy2249"
        PROVE  Goal
    <2>1. /\ c[3] \in Seq(Acts) /\ Len(c[3]) = nChannels
          /\ \A j \in 1..nChannels : c[3][j] = A(f, j - 1)
      <3>1. f \in Functions_
        BY <1>3 DEF Functions_
      <3>2. QED
        BY <1>3, <3>1, All_
    <2>2. \A j \in 1..nChannels : Fits(k, o, c[3][j], nChannels - j + 1)
      BY <1>3, <2>1 DEF Fits, A, ListNames
    <2>3. Program(k, o, c[3])
      BY <1>3, <2>1, <2>2 DEF Program, Longest
    <2>4. QED
      BY <1>3, <2>3 DEF NamesOf, Names, ListNames, Classes
  <1>4. CASE c = <<"CZReset", 0, CZReset>> /\ k # "LeCroy2249"
    <2>1. c[1] = "CZReset" /\ c[2] = 0 /\ c[3] = CZReset
      BY <1>4
    <2>2. /\ CZReset \in Seq(Acts) /\ Len(CZReset) = 2 /\ CZReset[1] = A("C", 0)
          /\ CZReset[2] = A("Z", 0)
      BY Sizes DEF CZReset, Functions_, Acts, A
    <2>3. \A j \in 1..2 : Fits(k, o, CZReset[j], 2 - j + 1)
      BY <2>1, <2>2 DEF Fits, A, ListNames
    <2>4. Program(k, o, CZReset)
      BY <2>1, <2>2, <2>3 DEF Program, Longest, ListNames
    <2>5. QED
      BY <1>4, <2>1, <2>4, Sizes DEF NamesOf, Names, Classes
  <1>5. ASSUME k = "Counter_S0301", NEW p \in Pairs, c = <<"Read2", p, Read2(p)>> PROVE Goal
    <2>1. c[1] = "Read2" /\ c[2] = p /\ c[3] = Read2(p)
      BY <1>5
    <2>2. /\ c[3] \in Seq(Acts) /\ Len(c[3]) = 2 /\ c[3][1] = A("F0", 2 * p + 1)
          /\ c[3][2] = A("F0", 2 * p)
      BY <2>1, PairOf DEF Read2, Functions_, Acts, A
    <2>3. \A j \in 1..2 : Fits(k, o, c[3][j], 2 - j + 1)
      <3>1. 2 * p + 2 - 1 = 2 * p + 1 /\ 2 * p + 1 - 1 = 2 * p
        BY PairOf
      <3>2. Fits(k, o, c[3][1], 2)
        BY <1>5, <2>1, <2>2, <3>1 DEF Fits, A, ListNames
      <3>3. Fits(k, o, c[3][2], 1)
        BY <1>5, <2>1, <2>2, <3>1 DEF Fits, A, ListNames
      <3>4. QED
        BY <3>2, <3>3
    <2>4. Program(k, o, c[3])
      BY <2>1, <2>2, <2>3 DEF Program, Longest, ListNames
    <2>5. QED
      BY <1>5, <2>1, <2>4, Sizes DEF NamesOf, Names, Classes
  <1>6. ASSUME k = "Counter_S0301", NEW p \in Pairs, c = <<"Read2clear", p, Read2clear(p)>> PROVE Goal
    <2>1. c[1] = "Read2clear" /\ c[2] = p /\ c[3] = Read2clear(p)
      BY <1>6
    <2>2. /\ c[3] \in Seq(Acts) /\ Len(c[3]) = 3 /\ c[3][1] = A("F0", 2 * p + 1)
          /\ c[3][2] = A("F2", 2 * p) /\ c[3][3] = A("F9", 2 * p + 1)
      BY <2>1, PairOf DEF Read2clear, Functions_, Acts, A
    <2>3. \A j \in 1..3 : Fits(k, o, c[3][j], 3 - j + 1)
      BY <1>6, <2>1, <2>2, PairOf DEF Fits, A, ListNames
    <2>4. Program(k, o, c[3])
      BY <2>1, <2>2, <2>3 DEF Program, Longest, ListNames
    <2>5. QED
      BY <1>6, <2>1, <2>4, Sizes DEF NamesOf, Names, Classes
  <1>7. ASSUME k \in {"QDC_C0312", "TDC_C0309"}, NEW n \in ListNames, c = <<n, 0, ListAF(k, n)>>
        PROVE  Goal
    <2>1. c[1] = n /\ c[2] = 0 /\ c[3] = ListAF(k, n) /\ Passed(k) \in Nat
      BY <1>7, PassedRange
    <2>2. /\ c[3] \in Seq(Acts) /\ Len(c[3]) = Passed(k) + 1
          /\ \A j \in 1..Passed(k) : c[3][j] = A("F0", j - 1) \/ c[3][j] = A("F2", j - 1)
          /\ c[3][Passed(k) + 1] = A("copy", 0)
      BY <1>7, <2>1, Lists
    <2>3. ASSUME NEW j \in 1..Len(c[3])
          PROVE  Fits(k, o, c[3][j], Len(c[3]) - j + 1)
      <3> DEFINE m == Len(c[3]) - j + 1
      <3>1. j \in 1..(Passed(k) + 1) /\ m = Passed(k) + 2 - j
        BY <2>1, <2>2
      <3> HIDE DEF m
      <3>2. CASE j = Passed(k) + 1
        <4>1. c[3][j] = A("copy", 0) /\ m = 1
          BY <2>1, <2>2, <3>1, <3>2
        <4>2. Fits(k, o, c[3][j], m)
          BY <1>7, <2>1, <4>1 DEF Fits, A, ListNames
        <4>3. QED
          BY <4>2 DEF m
      <3>3. CASE j # Passed(k) + 1
        <4>1. PICK f \in {"F0", "F2"} : c[3][j] = A(f, j - 1)
          BY <2>1, <2>2, <3>1, <3>3
        <4>2. m # 1 /\ Passed(k) + 1 - m = j - 1 /\ m \in 1..(Passed(k) + 1)
          BY <2>1, <3>1, <3>3
        <4>3. Fits(k, o, c[3][j], m)
          BY <1>7, <2>1, <4>1, <4>2 DEF Fits, A, ListNames
        <4>4. QED
          BY <4>3 DEF m
      <3>4. QED
        BY <3>2, <3>3
    <2>4. Program(k, o, c[3])
      <3>1. Longest(k, o, Len(c[3]))
        BY <1>7, <2>1, <2>2 DEF Longest, ListNames
      <3>2. QED
        BY <2>2, <2>3, <3>1, Zenon DEF Program
    <2>5. QED
      BY <1>7, <2>1, <2>4, Sizes DEF NamesOf, Names, Classes, ListNames
  <1> HIDE DEF Goal
  <1>8. CASE k = "Counter_S0301"
    <2>1. c \in CounterCalls \/ c = <<"CZReset", 0, CZReset>>
      BY <1>8 DEF Calls
    <2>2. CASE c \in CounterCalls
      <3>1. CASE \E p \in Pairs : c = <<"Read2", p, Read2(p)>> \/ c = <<"Read2clear", p, Read2clear(p)>>
        BY <1>5, <1>6, <1>8, <3>1 DEF Goal
      <3>2. CASE c = <<"Init", 0, Each("F9")>> \/ c = <<"Test", 0, Each("F2")>>
        BY <1>3, <1>8, <3>2, Sizes DEF NamesOf, ListNames, Goal
      <3>3. CASE \E a \in Channels : c = <<"Reset", a, Once("F9", a)>> \/ c = <<"ReadClear", a, Once("F2", a)>>
        BY <1>2, <1>8, <3>3, Sizes DEF NamesOf, ListNames, Functions_, Goal
      <3>4. CASE \E p \in Pairs : c = <<"Increment", 2 * p, Once("F25", 2 * p)>>
        <4>1. PICK p \in Pairs : c = <<"Increment", 2 * p, Once("F25", 2 * p)>>
          BY <3>4
        <4> DEFINE a == 2 * p
        <4>2. a \in Channels
          BY PairOf
        <4>3. c[1] = "Increment" /\ c[2] = a /\ c[3] = Once("F25", a) /\ \E q \in Pairs : a = 2 * q
          BY <4>1
        <4> HIDE DEF a
        <4>4. QED
          BY <1>2, <1>8, <4>2, <4>3 DEF NamesOf, ListNames, Functions_, Goal
      <3>5. QED
        BY <2>2, <3>1, <3>2, <3>3, <3>4 DEF CounterCalls
    <2>3. QED
      BY <1>4, <1>8, <2>1, <2>2 DEF Goal
  <1>9. CASE k \in {"QDC_C0312", "TDC_C0309"}
    BY <1>2, <1>4, <1>7, <1>9, Sizes DEF Calls, ListCalls, Accepted, NamesOf, ListNames, Functions_, Goal
  <1>10. CASE k = "TDC_C0301"
    BY <1>2, <1>3, <1>4, <1>10, Sizes DEF Calls, TDC0301Calls, NamesOf, ListNames, Functions_, Goal
  <1>11. CASE k = "LeCroy2249"
    BY <1>2, <1>11, Sizes DEF Calls, LeCroyCalls, NamesOf, ListNames, Functions_, Goal
  <1>12. QED
    BY <1>8, <1>9, <1>10, <1>11 DEF Classes, Goal
-----------------------------------------------------------------------------
(* Every variable has its type, and what is left of an operation is left   *)
(* of its program.                                                         *)
TypeInv ==
    /\ class \in [Instances -> Classes]
    /\ counted \in [Instances -> [Channels -> 0..(Words - 1)]]
    /\ event \in [Instances -> Nat]
    /\ fresh \in [Instances -> SUBSET Channels]
    /\ lam \in [Instances -> BOOLEAN]
    /\ list \in [{"QDC_C0312", "TDC_C0309"} \X ListNames -> [Channels -> Data]]
    /\ ignoreQ \in [Instances -> BOOLEAN] /\ told \in [Instances -> BOOLEAN]
    /\ op \in [Instances -> [name : Names, channel : Channels]]
    /\ todo \in [Instances -> Seq(Acts)]
    /\ rcs \in [Instances -> SUBSET Result]
    /\ data \in [Instances -> Seq(Data)]
    /\ since \in [Instances -> Nat]
    /\ due \in [Instances -> [Pairs -> Int]]
    /\ spoiled \in [Instances -> BOOLEAN] /\ wiped \in [Instances -> BOOLEAN]
    /\ overlapped \in [Instances -> BOOLEAN]

TodoInv(i) ==
    /\ op[i] = None => todo[i] = <<>> /\ rcs[i] = {} /\ data[i] = <<>>
    /\ op[i] # None => op[i].name \in NamesOf(class[i])
    /\ op[i].name \in {"Read2", "Read2clear"} => op[i].channel \in Pairs
    /\ \A j \in 1..Len(todo[i]) : Fits(class[i], op[i], todo[i][j], Len(todo[i]) - j + 1)

(* No class has an operation of no name.                                   *)
LEMMA NoneIsNone ==
    /\ \A k \in Classes : "none" \notin NamesOf(k) /\ NamesOf(k) \subseteq Names
    /\ None \in [name : Names, channel : Channels]
  BY Sizes DEF NamesOf, Classes, ListNames, Names, None

(* The access that is due.                                                 *)
LEMMA Due ==
    ASSUME TypeInv, NEW i \in Instances, TodoInv(i), todo[i] # <<>>
    PROVE  /\ Head1(i) \in Acts /\ Fits(class[i], op[i], Head1(i), Len(todo[i]))
           /\ op[i] # None /\ Len(todo[i]) \in Nat \ {0}
           /\ Head1(i) = A(Head1(i).f, Head1(i).a)
  <1>1. todo[i] \in Seq(Acts) /\ Len(todo[i]) \in Nat \ {0} /\ Head(todo[i]) = todo[i][1]
        /\ todo[i][1] \in Acts
    BY DEF TypeInv
  <1>2. Fits(class[i], op[i], todo[i][1], Len(todo[i]) - 1 + 1) /\ Len(todo[i]) - 1 + 1 = Len(todo[i])
    BY <1>1 DEF TodoInv
  <1>3. QED
    BY <1>1, <1>2 DEF TodoInv, Head1, Acts, A

(* One access done, the rest of the program is left.                       *)
LEMMA Advances ==
    ASSUME TypeInv, NEW i \in Instances, TodoInv(i), todo[i] # <<>>, Advance(i),
           class'[i] = class[i], op'[i] = op[i]
    PROVE  /\ TodoInv(i)' /\ todo' \in [Instances -> Seq(Acts)] /\ Len(todo'[i]) = Len(todo[i]) - 1
           /\ \A j \in Instances \ {i} : todo'[j] = todo[j]
  <1>1. todo[i] \in Seq(Acts) /\ Len(todo[i]) \in Nat \ {0} /\ op[i] # None
    BY Due DEF TypeInv
  <1>2. /\ todo'[i] = Tail(todo[i]) /\ todo' \in [Instances -> Seq(Acts)]
        /\ \A j \in Instances \ {i} : todo'[j] = todo[j]
    BY <1>1 DEF Advance, TypeInv
  <1>3. /\ Len(Tail(todo[i])) = Len(todo[i]) - 1
        /\ \A j \in 1..(Len(todo[i]) - 1) : Tail(todo[i])[j] = todo[i][j + 1]
    BY <1>1
  <1>4. ASSUME NEW j \in 1..Len(todo'[i])
        PROVE  Fits(class[i], op[i], todo'[i][j], Len(todo'[i]) - j + 1)
    <2>1. j + 1 \in 1..Len(todo[i]) /\ Len(todo[i]) - (j + 1) + 1 = Len(todo'[i]) - j + 1
      BY <1>1, <1>2, <1>3
    <2>2. Fits(class[i], op[i], todo[i][j + 1], Len(todo[i]) - (j + 1) + 1)
      BY <2>1 DEF TodoInv
    <2>3. todo'[i][j] = todo[i][j + 1]
      BY <1>1, <1>2, <1>3
    <2>4. QED
      BY <2>1, <2>2, <2>3, Zenon
  <1>5. TodoInv(i)'
    BY <1>1, <1>4 DEF TodoInv
  <1>6. QED
    BY <1>2, <1>3, <1>5

(* What is left alone in an instance leaves its program alone.             *)
LEMMA Rests ==
    ASSUME NEW i \in Instances, TodoInv(i), class'[i] = class[i], op'[i] = op[i], todo'[i] = todo[i],
           rcs'[i] = rcs[i], data'[i] = data[i]
    PROVE  TodoInv(i)'
  BY Zenon DEF TodoInv

(* A call begins a program.                                                *)
LEMMA Begins ==
    ASSUME TypeInv, NEW i \in Instances, TodoInv(i), Call(i)
    PROVE  /\ TodoInv(i)' /\ Longest(class[i], op'[i], Len(todo'[i]))
           /\ op' \in [Instances -> [name : Names, channel : Channels]]
           /\ todo' \in [Instances -> Seq(Acts)] /\ op'[i].name # "none"
           /\ \A j \in Instances \ {i} : op'[j] = op[j] /\ todo'[j] = todo[j]
  <1>1. PICK c \in Calls(class[i]) : /\ op' = [op EXCEPT ![i] = [name |-> c[1], channel |-> c[2]]]
                                     /\ todo' = [todo EXCEPT ![i] = c[3]]
    BY DEF Call
  <1>2. class[i] \in Classes /\ class' = class
    BY DEF TypeInv, Call
  <1>3. /\ c[1] \in NamesOf(class[i]) /\ c[1] \in Names \ {"none"} /\ c[2] \in Channels
        /\ c[1] \in {"Read2", "Read2clear"} => c[2] \in Pairs
        /\ Program(class[i], [name |-> c[1], channel |-> c[2]], c[3])
    BY <1>2, Programs
  <1>4. c[3] \in Seq(Acts)
    BY <1>3 DEF Program
  <1>5. op'[i] = [name |-> c[1], channel |-> c[2]] /\ todo'[i] = c[3]
    BY <1>1 DEF TypeInv
  <1>6. op'[i].name = c[1] /\ op'[i].channel = c[2] /\ op'[i] # None
    BY <1>3, <1>5 DEF None
  <1>7. TodoInv(i)'
    <2>1. \A j \in 1..Len(todo'[i]) : Fits(class'[i], op'[i], todo'[i][j], Len(todo'[i]) - j + 1)
      BY <1>2, <1>3, <1>5, Zenon DEF Program
    <2>2. QED
      BY <1>2, <1>3, <1>6, <2>1 DEF TodoInv
  <1>8. Longest(class[i], op'[i], Len(todo'[i]))
    BY <1>3, <1>5, Zenon DEF Program
  <1>9. QED
    BY <1>1, <1>3, <1>4, <1>6, <1>7, <1>8 DEF TypeInv
-----------------------------------------------------------------------------
(* A counter's words.                                                      *)
Count == [Channels -> 0..(Words - 1)]

(* Two words make a number, high word first.                               *)
LEMMA Valued ==
    ASSUME NEW w \in Count, NEW p \in Pairs
    PROVE  /\ w[2 * p] \in 0..(Words - 1) /\ w[2 * p + 1] \in 0..(Words - 1)
           /\ w[2 * p + 1] * Words \in Nat
           /\ Value(w, p) = w[2 * p + 1] * Words + w[2 * p] /\ Value(w, p) \in Nat
  <1>1. w[2 * p] \in 0..(Words - 1) /\ w[2 * p + 1] \in 0..(Words - 1) /\ Words \in Nat
    BY PairOf, ReadoutAssumption DEF Count
  <1>2. w[2 * p + 1] * Words \in Nat
    BY <1>1
  <1>3. Value(w, p) = w[2 * p + 1] * Words + w[2 * p]
    BY DEF Value
  <1>4. QED
    BY <1>1, <1>2, <1>3

(* A pulse counts one; no other number is touched.                         *)
LEMMA Adds ==
    ASSUME NEW w \in Count, NEW p \in Pairs, Value(w, p) < MaxPulses
    PROVE  /\ Add(w, 2 * p) \in Count /\ Value(Add(w, 2 * p), p) = Value(w, p) + 1
           /\ \A q \in Pairs \ {p} : Value(Add(w, 2 * p), q) = Value(w, q)
           /\ Add(w, 2 * p)[2 * p + 1] >= w[2 * p + 1]
  <1> DEFINE h == w[2 * p + 1]
             l == w[2 * p]
             v == Add(w, 2 * p)
  <1>1. /\ h \in 0..(Words - 1) /\ l \in 0..(Words - 1) /\ Words \in Nat /\ h * Words \in Nat
        /\ Value(w, p) = h * Words + l /\ MaxPulses \in Nat /\ MaxPulses < Words * Words
        /\ 2 * p \in Channels /\ 2 * p + 1 \in Channels /\ 2 * p # 2 * p + 1
    BY Valued, PairOf, ReadoutAssumption
  <1>2. \A q \in Pairs \ {p} : 2 * q \notin {2 * p, 2 * p + 1} /\ 2 * q + 1 \notin {2 * p, 2 * p + 1}
    BY Sizes DEF Pairs
  <1>3. CASE l + 1 < Words
    <2>1. v = [w EXCEPT ![2 * p] = l + 1]
      BY <1>3 DEF Add
    <2>2. v \in Count /\ v[2 * p] = l + 1 /\ v[2 * p + 1] = h
      <3>1. l + 1 \in 0..(Words - 1)
        BY <1>1, <1>3
      <3> HIDE DEF v
      <3>2. QED
        BY <1>1, <2>1, <3>1 DEF Count
    <2>3. Value(v, p) = Value(w, p) + 1
      <3> HIDE DEF v, h, l
      <3>1. Value(v, p) = h * Words + (l + 1)
        BY <2>2 DEF Value
      <3>2. QED
        BY <1>1, <3>1
    <2>4. \A q \in Pairs \ {p} : Value(v, q) = Value(w, q)
      BY <1>2, <2>1, PairOf DEF Value, Count
    <2>5. QED
      BY <1>1, <2>2, <2>3, <2>4
  <1>4. CASE l + 1 = Words
    <2>1. v = [w EXCEPT ![2 * p] = 0, ![2 * p + 1] = h + 1]
      BY <1>1, <1>4 DEF Add
    <2>2. h + 1 < Words
      <3> HIDE DEF h, l
      <3>1. (h + 1) * Words < Words * Words
        <4>1. (h + 1) * Words = h * Words + Words
          BY <1>1
        <4>2. Words * Words \in Nat
          BY <1>1
        <4>3. QED
          BY <1>1, <1>4, <4>1, <4>2
      <3>2. h + 1 >= Words => (h + 1) * Words >= Words * Words
        BY <1>1
      <3>3. QED
        BY <1>1, <3>1, <3>2
    <2>3. v \in Count /\ v[2 * p] = 0 /\ v[2 * p + 1] = h + 1
      <3>1. 0 \in 0..(Words - 1) /\ h + 1 \in 0..(Words - 1)
        BY <1>1, <2>2
      <3> HIDE DEF v
      <3>2. QED
        BY <1>1, <2>1, <3>1 DEF Count
    <2>4. Value(v, p) = Value(w, p) + 1
      <3> HIDE DEF v, h, l
      <3>1. Value(v, p) = (h + 1) * Words + 0
        BY <2>3 DEF Value
      <3>2. (h + 1) * Words = h * Words + Words
        BY <1>1
      <3>3. QED
        BY <1>1, <1>4, <3>1, <3>2
    <2>5. \A q \in Pairs \ {p} : Value(v, q) = Value(w, q)
      BY <1>2, <2>1, PairOf DEF Value, Count
    <2>6. QED
      BY <1>1, <2>3, <2>4, <2>5
  <1>5. QED
    BY <1>1, <1>3, <1>4

(* Clearing a word takes what it stands for off its number, and nothing    *)
(* off another.                                                            *)
LEMMA Clears ==
    ASSUME NEW w \in Count, NEW c \in Channels
    PROVE  /\ [w EXCEPT ![c] = 0] \in Count
           /\ \A q \in Pairs \ {c \div 2} : Value([w EXCEPT ![c] = 0], q) = Value(w, q)
           /\ Value([w EXCEPT ![c] = 0], c \div 2)
                 = Value(w, c \div 2) - w[c] * (IF c % 2 = 0 THEN 1 ELSE Words)
  <1> DEFINE v == [w EXCEPT ![c] = 0]
             p == c \div 2
  <1>1. Words \in Nat \ {0} /\ 0 \in 0..(Words - 1)
    BY ReadoutAssumption
  <1>2. v \in Count
    BY <1>1 DEF Count
  <1>4. /\ p \in Pairs /\ c \in Nat /\ (c = 2 * p \/ c = 2 * p + 1) /\ (c % 2 = 0 <=> c = 2 * p)
        /\ 2 * p \in Channels /\ 2 * p + 1 \in Channels /\ 2 * p # 2 * p + 1
    BY ChannelOf, PairOf
  <1> HIDE DEF p
  <1>5. \A q \in Pairs \ {p} : Value(v, q) = Value(w, q)
    <2>1. \A q \in Pairs \ {p} : 2 * q # c /\ 2 * q + 1 # c
      BY <1>4, Sizes DEF Pairs
    <2>2. QED
      BY <2>1, PairOf DEF Value, Count
  <1>6. CASE c = 2 * p
    <2>1. v[2 * p] = 0 /\ v[2 * p + 1] = w[2 * p + 1]
      BY <1>4, <1>6 DEF Count
    <2>2. Value(v, p) = w[2 * p + 1] * Words + 0
      BY <2>1 DEF Value
    <2>3. w[c] * (IF c % 2 = 0 THEN 1 ELSE Words) = w[2 * p]
      BY <1>4, <1>6, Valued
    <2>4. Value(v, p) = Value(w, p) - w[2 * p]
      BY <1>4, <2>2, Valued
    <2>5. QED
      BY <1>2, <1>5, <2>3, <2>4 DEF p
  <1>7. CASE c = 2 * p + 1
    <2>1. v[2 * p] = w[2 * p] /\ v[2 * p + 1] = 0
      BY <1>4, <1>7 DEF Count
    <2>2. Value(v, p) = 0 * Words + w[2 * p]
      BY <2>1 DEF Value
    <2>3. w[c] * (IF c % 2 = 0 THEN 1 ELSE Words) = w[2 * p + 1] * Words
      BY <1>4, <1>7
    <2>4. Value(v, p) = Value(w, p) - w[2 * p + 1] * Words
      BY <1>1, <1>4, <2>2, Valued
    <2>5. QED
      BY <1>2, <1>5, <2>3, <2>4 DEF p
  <1>8. QED
    BY <1>4, <1>6, <1>7

(* Nothing has been counted when all the words are zero.                   *)
LEMMA Zeros ==
    /\ [c \in Channels |-> 0] \in Count
    /\ \A p \in Pairs : Value([c \in Channels |-> 0], p) = 0
  <1>1. Words \in Nat \ {0}
    BY ReadoutAssumption
  <1>2. ASSUME NEW p \in Pairs PROVE Value([c \in Channels |-> 0], p) = 0
    <2>1. Value([c \in Channels |-> 0], p) = 0 * Words + 0
      BY PairOf DEF Value
    <2>2. QED
      BY <1>1, <2>1
  <1>3. QED
    BY <1>1, <1>2 DEF Count
-----------------------------------------------------------------------------
(* The steps of an instance.                                               *)
Step(i) == \/ Call(i) \/ IgnoreQ(i) \/ Pulse(i) \/ Gate(i)
           \/ Transferred(i) \/ Faulted(i) \/ CrateReset(i) \/ Copy(i) \/ Return(i)

(* What they leave to another: its operation always, its module unless C   *)
(* or Z clears that.                                                       *)
Untouched(j) ==
    /\ class'[j] = class[j] /\ op'[j] = op[j] /\ todo'[j] = todo[j] /\ rcs'[j] = rcs[j]
    /\ data'[j] = data[j] /\ since'[j] = since[j] /\ event'[j] = event[j]
    /\ ignoreQ'[j] = ignoreQ[j] /\ told'[j] = told[j]
Left(j) ==
    /\ counted'[j] = counted[j] /\ fresh'[j] = fresh[j] /\ lam'[j] = lam[j]
    /\ due'[j] = due[j] /\ spoiled'[j] = spoiled[j] /\ wiped'[j] = wiped[j]
Emptied(j) ==
    /\ counted'[j] = [c \in Channels |-> 0] /\ fresh'[j] \in {fresh[j], {}}
    /\ class[j] # "TDC_C0301" => fresh'[j] = {} /\ ~lam'[j]
    /\ due'[j] = [p \in Pairs |-> 0] /\ spoiled'[j] = Clearing(j) /\ wiped'[j]

(* An access to the module changes the module of its own instance only.    *)
LEMMA Effects ==
    ASSUME TypeInv, NEW i \in Instances, NEW a, Effect(i, a)
    PROVE  /\ event' = event
           /\ \A j \in Instances \ {i} :
                 counted'[j] = counted[j] /\ fresh'[j] = fresh[j] /\ lam'[j] = lam[j]
  BY DEF TypeInv, Effect, ByCounter, ByConverter, Cleared

(* The steps of one instance, as another sees them.                        *)
LEMMA Others ==
    ASSUME TypeInv, NEW i \in Instances, NEW j \in Instances \ {i}, Step(i)
    PROVE  Untouched(j) /\ (Left(j) \/ Emptied(j)) /\ (overlapped[j] => overlapped'[j])
  <1> USE DEF TypeInv, Untouched, Left, Emptied
  <1>1. CASE Call(i)
    <2>1. overlapped[j] => overlapped'[j]
      BY <1>1, Zenon DEF Call
    <2>2. QED
      BY <1>1, <2>1 DEF Call, module
  <1>2. CASE IgnoreQ(i)
    BY <1>2 DEF IgnoreQ, module, call, histories
  <1>3. CASE Pulse(i)
    BY <1>3 DEF Pulse, Increment, call
  <1>4. CASE Gate(i)
    BY <1>4 DEF Gate, call, histories
  <1>5. CASE Transferred(i)
    <2>1. event' = event /\ counted'[j] = counted[j] /\ fresh'[j] = fresh[j] /\ lam'[j] = lam[j]
      BY <1>5, Effects DEF Transferred
    <2>2. QED
      BY <1>5, <2>1 DEF Transferred, Answered, Advance, Account
  <1>6. CASE Faulted(i)
    <2>1. event' = event /\ counted'[j] = counted[j] /\ fresh'[j] = fresh[j] /\ lam'[j] = lam[j]
      BY <1>6, Effects DEF Faulted, module
    <2>2. QED
      BY <1>6, <2>1 DEF Faulted, Answered, Advance
  <1>7. CASE CrateReset(i)
    <2>1. Untouched(j) /\ (overlapped[j] => overlapped'[j])
      <3>1. event' = event /\ UNCHANGED <<class, ignoreQ, told, op, data, since, overlapped>>
        BY <1>7 DEF CrateReset, Wipe, module
      <3>2. rcs'[j] = rcs[j] /\ todo'[j] = todo[j]
        BY <1>7 DEF CrateReset, Answered, Advance
      <3>3. QED
        BY <3>1, <3>2
    <2>2. Left(j) \/ Emptied(j)
      <3>1. CASE Wipe
        BY <3>1 DEF Wipe, MaybeDeaf
      <3>2. CASE UNCHANGED <<module, due, spoiled, wiped>>
        BY <3>2 DEF module
      <3>3. QED
        BY <1>7, <3>1, <3>2 DEF CrateReset
    <2>3. QED
      BY <2>1, <2>2
  <1>8. CASE Copy(i)
    BY <1>8 DEF Copy, Advance, module, histories
  <1>9. CASE Return(i)
    BY <1>9 DEF Return, module
  <1>10. QED
    BY <1>1, <1>2, <1>3, <1>4, <1>5, <1>6, <1>7, <1>8, <1>9 DEF Step

(* The program of another stays what it is.                                *)
LEMMA OthersTodo ==
    ASSUME TypeInv, NEW i \in Instances, NEW j \in Instances \ {i}, Step(i), TodoInv(j)
    PROVE  TodoInv(j)'
  <1>1. Untouched(j)
    BY Others
  <1>2. QED
    BY <1>1, Rests DEF Untouched

(* An access to a module brings a word and an answer.                      *)
LEMMA Brings ==
    ASSUME TypeInv, NEW i \in Instances, TodoInv(i), todo[i] # <<>>,
           Head1(i).f \notin {"C", "Z", "copy"}
    PROVE  /\ Brought(i, Head1(i)) \in Seq(Data)
           /\ Told(i, Head1(i), Answer(i, Head1(i))) \in {{}, {"NOT_Q"}}
           /\ Told(i, Head1(i), Answer(i, Head1(i))) \in Result
           /\ Taken(i, Head1(i)) \in Int
  <1> DEFINE a == Head1(i)
  <1>1. /\ a \in Acts /\ Fits(class[i], op[i], a, Len(todo[i]))
    BY Due
  <1>2. counted[i][a.a] \in Nat /\ event[i] \in Nat /\ a.a \in Channels /\ Words \in Nat
    BY <1>1, ReadoutAssumption DEF TypeInv, Acts
  <1>3. Brought(i, a) \in Seq(Data)
    <2> HIDE DEF a
    <2>1. CASE a.f \notin {"F0", "F2"}
      BY <2>1 DEF Brought
    <2>2. CASE a.f \in {"F0", "F2"}
      <3> DEFINE w == [of |-> i, channel |-> a.a,
                       value |-> IF i \in Counters THEN counted[i][a.a] ELSE event[i]]
      <3>1. w \in Data
        BY <1>2 DEF Data
      <3>2. Brought(i, a) = <<w>>
        BY <2>2 DEF Brought
      <3> HIDE DEF w
      <3>3. QED
        BY <3>1, <3>2
    <2>3. QED
      BY <2>1, <2>2
  <1>4. Answer(i, a) \in {{}, {"NOT_Q"}}
    <2>1. i \in Counters <=> class[i] = "Counter_S0301"
      BY DEF Counters
    <2>2. i \in Counters \/ a.f \in {"F0", "F2", "F8", "F9", "F10", "F26"}
      BY <1>1, <2>1 DEF Fits, Acts, Functions_
    <2> HIDE DEF a
    <2>3. QED
      BY <2>2 DEF Answer, Q
  <1>5. Told(i, a, Answer(i, a)) \in {{}, {"NOT_Q"}}
    BY <1>4 DEF Told
  <1>6. Taken(i, a) \in Int
    <2> HIDE DEF a
    <2>1. counted[i][a.a] * (IF a.a % 2 = 0 THEN 1 ELSE Words) \in Int
      BY <1>2
    <2>2. QED
      BY <2>1 DEF Taken
  <1>7. \A rc \in {{}, {"NOT_Q"}} : rc \in Result
    BY DEF Result, All, Errors, StationAnswer
  <1>8. QED
    BY <1>3, <1>5, <1>6, <1>7

(* A word more at the end of what has been read.                           *)
LEMMA Longer ==
    ASSUME NEW s \in Seq(Data), NEW w \in Data
    PROVE  /\ s \o <<w>> \in Seq(Data) /\ Len(s \o <<w>>) = Len(s) + 1
           /\ (s \o <<w>>)[Len(s) + 1] = w /\ \A n \in 1..Len(s) : (s \o <<w>>)[n] = s[n]
           /\ s \o <<>> = s
  <1>1. s \o <<w>> \in Seq(Data) /\ Len(s \o <<w>>) = Len(s) + 1 /\ Len(s) \in Nat
    OBVIOUS
  <1>2. (s \o <<w>>)[Len(s) + 1] = w /\ \A n \in 1..Len(s) : (s \o <<w>>)[n] = s[n]
    OBVIOUS
  <1>3. s \o <<>> = s
    OBVIOUS
  <1>4. QED
    BY <1>1, <1>2, <1>3

(* What an access adds to the words that have been read.                   *)
LEMMA Gains ==
    ASSUME TypeInv, NEW i \in Instances, TodoInv(i), Transferred(i)
    PROVE  LET a == Head1(i)
               w == [of |-> i, channel |-> a.a,
                     value |-> IF i \in Counters THEN counted[i][a.a] ELSE event[i]]
           IN  /\ w \in Data /\ data' \in [Instances -> Seq(Data)]
               /\ InList(i) \/ a.f \notin {"F0", "F2"} => data'[i] = data[i]
               /\ ~InList(i) /\ a.f \in {"F0", "F2"} =>
                     /\ Len(data'[i]) = Len(data[i]) + 1 /\ data'[i][Len(data[i]) + 1] = w
                     /\ \A n \in 1..Len(data[i]) : data'[i][n] = data[i][n]
  <1> DEFINE a == Head1(i)
             w == [of |-> i, channel |-> a.a,
                   value |-> IF i \in Counters THEN counted[i][a.a] ELSE event[i]]
  <1>1. todo[i] # <<>> /\ a \in Acts /\ data[i] \in Seq(Data)
    BY Due DEF Transferred, TypeInv
  <1>2. w \in Data
    <2>1. counted[i][a.a] \in Nat /\ event[i] \in Nat /\ a.a \in Channels
      BY <1>1, ReadoutAssumption DEF TypeInv, Acts
    <2> HIDE DEF a
    <2>2. QED
      BY <2>1 DEF Data
  <1>3. Brought(i, a) = IF a.f \notin {"F0", "F2"} THEN <<>> ELSE <<w>>
    BY DEF Brought
  <1>4. data' = [data EXCEPT ![i] = IF InList(i) THEN @ ELSE @ \o Brought(i, a)]
    BY DEF Transferred
  <1> HIDE DEF a, w
  <1>5. data'[i] = (IF InList(i) THEN data[i] ELSE data[i] \o Brought(i, a))
    BY <1>1, <1>4 DEF TypeInv
  <1>6. /\ data[i] \o <<w>> \in Seq(Data) /\ Len(data[i] \o <<w>>) = Len(data[i]) + 1
        /\ (data[i] \o <<w>>)[Len(data[i]) + 1] = w
        /\ \A n \in 1..Len(data[i]) : (data[i] \o <<w>>)[n] = data[i][n]
        /\ data[i] \o <<>> = data[i]
    BY <1>1, <1>2, Longer
  <1>7. data'[i] \in Seq(Data)
    <2>1. data'[i] \in {data[i], data[i] \o <<>>, data[i] \o <<w>>}
      BY <1>3, <1>5
    <2>2. QED
      BY <1>1, <1>6, <2>1
  <1>8. data' \in [Instances -> Seq(Data)]
    BY <1>4, <1>7 DEF TypeInv
  <1>9. InList(i) \/ a.f \notin {"F0", "F2"} => data'[i] = data[i]
    BY <1>3, <1>5, <1>6
  <1>10. ASSUME ~InList(i), a.f \in {"F0", "F2"}
         PROVE  /\ Len(data'[i]) = Len(data[i]) + 1 /\ data'[i][Len(data[i]) + 1] = w
                /\ \A n \in 1..Len(data[i]) : data'[i][n] = data[i][n]
    <2>1. data'[i] = data[i] \o <<w>>
      BY <1>3, <1>5, <1>10
    <2>2. QED
      BY <1>6, <2>1, Zenon
  <1>11. QED
    BY <1>2, <1>8, <1>9, <1>10 DEF a, w

(* The words that an operation on a pair has read, when no access failed:  *)
(* the high one, then the low one.                                         *)
WordsInv(i) ==
    op[i].name \in {"Read2", "Read2clear"} /\ Fault \notin rcs[i] =>
        /\ op[i].name = "Read2" => Len(data[i]) = 2 - Len(todo[i])
        /\ op[i].name = "Read2clear" =>
              Len(data[i]) = 3 - Len(todo[i]) \/ (Len(todo[i]) = 0 /\ Len(data[i]) = 2)
        /\ Len(data[i]) \in 0..2
        /\ Len(data[i]) >= 1 => data[i][1].channel = 2 * op[i].channel + 1
        /\ Len(data[i]) = 2 => data[i][2].channel = 2 * op[i].channel

State == TypeInv /\ \A i \in Instances : TodoInv(i) /\ WordsInv(i)

(* An operation that succeeds has met no fault.                            *)
LEMMA NoFault ==
    ASSUME TypeInv, NEW i \in Instances, TodoInv(i), Succeeds(i), op[i].name # "CZReset",
           class[i] # "LeCroy2249"
    PROVE  /\ Fault \notin rcs[i] /\ {"NOT_Q"} \notin rcs[i]
  <1>1. ~IsError(Or(rcs[i]))
    BY DEF Succeeds, Outcome
  <1>2. ASSUME NEW e \in {"IFACE_TIMEOUT", "NOT_Q"}, {e} \in rcs[i] PROVE FALSE
    <2>1. e \in Or(rcs[i])
      BY <1>2 DEF Or
    <2>2. e \in Errors
      BY DEF Errors, HardErrors, StationAnswer
    <2>3. QED
      BY <1>1, <2>1, <2>2 DEF IsError
  <1>3. QED
    BY <1>2 DEF Fault

(* The double word an operation on a pair makes of them.                   *)
LEMMA Makes ==
    ASSUME TypeInv, NEW i \in Instances, TodoInv(i), WordsInv(i),
           op[i].name \in {"Read2", "Read2clear"}, todo[i] = <<>>, Fault \notin rcs[i]
    PROVE  /\ Made(i) = data[i][1].value * Words + data[i][2].value
           /\ Made(i) \in Nat /\ data[i][1].value \in Nat /\ data[i][2].value \in Nat
           /\ Len(data[i]) = 2
  <1> DEFINE p == op[i].channel
             d == data[i]
             of(r) == CHOOSE n \in DOMAIN d : d[n].channel % 2 = r
  <1>1. p \in Pairs /\ Len(todo[i]) = 0
    BY DEF TodoInv
  <1>2. d \in Seq(Data) /\ Len(d) = 2 /\ d[1].channel = 2 * p + 1 /\ d[2].channel = 2 * p
    <2>1. /\ op[i].name = "Read2" => Len(d) = 2 - Len(todo[i])
          /\ op[i].name = "Read2clear" =>
                Len(d) = 3 - Len(todo[i]) \/ (Len(todo[i]) = 0 /\ Len(d) = 2)
          /\ Len(d) \in 0..2
          /\ Len(d) >= 1 => d[1].channel = 2 * p + 1
          /\ Len(d) = 2 => d[2].channel = 2 * p
      BY Zenon DEF WordsInv
    <2>2. d \in Seq(Data)
      BY DEF TypeInv
    <2> HIDE DEF d, p
    <2>3. Len(d) = 2 - 0 \/ Len(d) = 3 - 0 \/ Len(d) = 2
      BY <1>1, <2>1, Zenon
    <2>5. Len(d) = 2
      BY <2>1, <2>3
    <2>6. QED
      BY <2>1, <2>2, <2>5
  <1>3. DOMAIN d = {1, 2} /\ d[1] \in Data /\ d[2] \in Data
    BY <1>2
  <1>4. d[1].channel % 2 = 1 /\ d[2].channel % 2 = 0
    BY <1>1, <1>2, PairOf
  <1>5. d[1].value \in Nat /\ d[2].value \in Nat
    BY <1>3 DEF Data
  <1>6. Made(i) = d[of(1)].value * Words + d[of(0)].value
    BY DEF Made
  <1> HIDE DEF d
  <1>7. of(1) = 1 /\ of(0) = 2
    <2>1. \A n \in DOMAIN d : d[n].channel % 2 = 1 <=> n = 1
      BY <1>3, <1>4
    <2>2. \A n \in DOMAIN d : d[n].channel % 2 = 0 <=> n = 2
      BY <1>3, <1>4
    <2>3. of(1) \in DOMAIN d /\ d[of(1)].channel % 2 = 1
      BY <1>3, <1>4
    <2>4. of(0) \in DOMAIN d /\ d[of(0)].channel % 2 = 0
      BY <1>3, <1>4
    <2> HIDE DEF of
    <2>5. QED
      BY <2>1, <2>2, <2>3, <2>4
  <1>8. Made(i) = d[1].value * Words + d[2].value
    BY <1>6, <1>7
  <1>9. d[1].value * Words + d[2].value \in Nat
    BY <1>5, ReadoutAssumption
  <1>10. QED
    BY <1>2, <1>5, <1>8, <1>9 DEF d

(* The words are read in this order.                                       *)
LEMMA WordsTransferred ==
    ASSUME TypeInv, NEW i \in Instances, TodoInv(i), WordsInv(i), Transferred(i)
    PROVE  WordsInv(i)'
  <1> DEFINE a == Head1(i)
  <1>1. /\ todo[i] # <<>> /\ op' = op /\ class' = class /\ Advance(i)
        /\ Answered(i, Told(i, a, Answer(i, a)))
    BY DEF Transferred
  <1>2. /\ a \in Acts /\ Fits(class[i], op[i], a, Len(todo[i])) /\ Len(todo[i]) \in Nat \ {0}
        /\ Len(todo'[i]) = Len(todo[i]) - 1
    BY <1>1, Due, Advances
  <1>3. Fault \notin rcs'[i] => Fault \notin rcs[i]
    BY <1>1 DEF Answered, TypeInv
  <1>4. SUFFICES ASSUME op[i].name \in {"Read2", "Read2clear"}, Fault \notin rcs[i]
                 PROVE  /\ op[i].name = "Read2" => Len(data'[i]) = 2 - Len(todo'[i])
                        /\ op[i].name = "Read2clear" =>
                              Len(data'[i]) = 3 - Len(todo'[i]) \/ (Len(todo'[i]) = 0 /\ Len(data'[i]) = 2)
                        /\ Len(data'[i]) \in 0..2
                        /\ Len(data'[i]) >= 1 => data'[i][1].channel = 2 * op[i].channel + 1
                        /\ Len(data'[i]) = 2 => data'[i][2].channel = 2 * op[i].channel
    BY <1>1, <1>3, Zenon DEF WordsInv
  <1>5. /\ op[i].name = "Read2" => Len(data[i]) = 2 - Len(todo[i])
        /\ op[i].name = "Read2clear" =>
              Len(data[i]) = 3 - Len(todo[i]) \/ (Len(todo[i]) = 0 /\ Len(data[i]) = 2)
        /\ Len(data[i]) \in 0..2
        /\ Len(data[i]) >= 1 => data[i][1].channel = 2 * op[i].channel + 1
        /\ Len(data[i]) = 2 => data[i][2].channel = 2 * op[i].channel
    BY <1>4, Zenon DEF WordsInv
  <1>6. ~InList(i) /\ op[i].channel \in Nat
    BY <1>4, Sizes DEF InList, TypeInv
  <1>7. /\ a.f \notin {"F0", "F2"} => data'[i] = data[i]
        /\ a.f \in {"F0", "F2"} =>
              /\ Len(data'[i]) = Len(data[i]) + 1 /\ data'[i][Len(data[i]) + 1].channel = a.a
              /\ \A n \in 1..Len(data[i]) : data'[i][n] = data[i][n]
    <2> DEFINE w == [of |-> i, channel |-> a.a,
                     value |-> IF i \in Counters THEN counted[i][a.a] ELSE event[i]]
    <2>1. w.channel = a.a
      OBVIOUS
    <2>2. /\ InList(i) \/ a.f \notin {"F0", "F2"} => data'[i] = data[i]
          /\ ~InList(i) /\ a.f \in {"F0", "F2"} =>
                /\ Len(data'[i]) = Len(data[i]) + 1 /\ data'[i][Len(data[i]) + 1] = w
                /\ \A n \in 1..Len(data[i]) : data'[i][n] = data[i][n]
      BY Gains
    <2> HIDE DEF a, w
    <2>3. QED
      BY <1>6, <2>1, <2>2
  <1>8. CASE op[i].name = "Read2"
    <2>1. Len(todo[i]) \in 1..2 /\ a.f = "F0" /\ a.a = 2 * op[i].channel + Len(todo[i]) - 1
      BY <1>2, <1>8 DEF Fits, A
    <2>2. CASE Len(todo[i]) = 2
      <3>1. Len(data[i]) = 0 /\ a.a = 2 * op[i].channel + 1
        BY <1>5, <1>6, <1>8, <2>1, <2>2
      <3>2. Len(data'[i]) = 1 /\ data'[i][1].channel = 2 * op[i].channel + 1
        BY <1>7, <2>1, <3>1
      <3>3. QED
        BY <1>2, <1>8, <2>2, <3>2
    <2>3. CASE Len(todo[i]) = 1
      <3>1. /\ Len(data[i]) = 1 /\ a.a = 2 * op[i].channel
            /\ data[i][1].channel = 2 * op[i].channel + 1
        BY <1>5, <1>6, <1>8, <2>1, <2>3
      <3>2. /\ Len(data'[i]) = 2 /\ data'[i][1].channel = 2 * op[i].channel + 1
            /\ data'[i][2].channel = 2 * op[i].channel
        BY <1>7, <2>1, <3>1
      <3>3. QED
        BY <1>2, <1>8, <2>3, <3>2
    <2>4. Len(todo[i]) = 2 \/ Len(todo[i]) = 1
      BY <2>1
    <2>5. QED
      BY <2>2, <2>3, <2>4, Zenon
  <1>9. CASE op[i].name = "Read2clear"
    <2>1. CASE Len(todo[i]) = 3 /\ a = A("F0", 2 * op[i].channel + 1)
      <3>1. Len(data[i]) = 0 /\ a.a = 2 * op[i].channel + 1 /\ a.f = "F0"
        BY <1>5, <1>9, <2>1 DEF A
      <3>2. Len(data'[i]) = 1 /\ data'[i][1].channel = 2 * op[i].channel + 1
        BY <1>7, <3>1
      <3>3. Len(todo'[i]) = 2 /\ op[i].name # "Read2"
        BY <1>2, <1>9, <2>1
      <3>4. Len(data'[i]) = 3 - Len(todo'[i]) /\ Len(data'[i]) # 2 /\ Len(data'[i]) \in 0..2
        BY <3>2, <3>3
      <3>5. QED
        BY <3>2, <3>3, <3>4, Zenon
    <2>2. CASE Len(todo[i]) = 2 /\ a = A("F2", 2 * op[i].channel)
      <3>1. /\ Len(data[i]) = 1 /\ a.a = 2 * op[i].channel /\ a.f = "F2"
            /\ data[i][1].channel = 2 * op[i].channel + 1
        BY <1>5, <1>9, <2>2 DEF A
      <3>2. /\ Len(data'[i]) = 2 /\ data'[i][1].channel = 2 * op[i].channel + 1
            /\ data'[i][2].channel = 2 * op[i].channel
        BY <1>7, <3>1
      <3>3. QED
        BY <1>2, <1>9, <2>2, <3>2
    <2>3. CASE Len(todo[i]) = 1 /\ a = A("F9", 2 * op[i].channel + 1)
      <3>1. data'[i] = data[i] /\ Len(data[i]) = 2
        BY <1>5, <1>7, <1>9, <2>3 DEF A
      <3>2. QED
        BY <1>2, <1>5, <1>9, <2>3, <3>1
    <2>4. QED
      BY <1>2, <1>9, <2>1, <2>2, <2>3 DEF Fits
  <1>10. QED
    BY <1>4, <1>8, <1>9

(* A step of an instance keeps the order of its words.                     *)
LEMMA WordsStep ==
    ASSUME TypeInv, NEW i \in Instances, TodoInv(i), WordsInv(i), Step(i)
    PROVE  WordsInv(i)'
  <1>1. CASE Call(i)
    <2>1. op[i] = None /\ rcs' = rcs /\ data' = data
      BY <1>1 DEF Call
    <2>2. data'[i] = <<>> /\ Longest(class[i], op'[i], Len(todo'[i]))
      BY <1>1, <2>1, Begins DEF TodoInv
    <2>3. /\ Len(data'[i]) = 0
          /\ op'[i].name = "Read2" => Len(todo'[i]) = 2
          /\ op'[i].name = "Read2clear" => Len(todo'[i]) = 3
      BY <2>2 DEF Longest
    <2>4. QED
      BY <2>3 DEF WordsInv
  <1>2. CASE IgnoreQ(i) \/ Pulse(i) \/ Gate(i)
    BY <1>2, Zenon DEF IgnoreQ, Pulse, Gate, call, WordsInv
  <1>3. CASE Transferred(i)
    BY <1>3, WordsTransferred
  <1>4. CASE Faulted(i)
    <2>1. Fault \in rcs'[i]
      BY <1>4 DEF Faulted, Answered, TypeInv
    <2>2. QED
      BY <2>1 DEF WordsInv
  <1>5. CASE CrateReset(i)
    <2>1. op[i].name = "CZReset" /\ op' = op
      BY <1>5, Due DEF CrateReset, Fits
    <2>2. QED
      BY <2>1 DEF WordsInv
  <1>6. CASE Copy(i)
    <2>1. op[i].name \in ListNames /\ op' = op
      <3>1. todo[i] # <<>> /\ Head1(i).f = "copy" /\ op' = op /\ Fits(class[i], op[i], Head1(i), Len(todo[i]))
        BY <1>6, Due DEF Copy
      <3>2. op[i].name \in Names
        BY DEF TypeInv
      <3>3. QED
        BY <3>1, <3>2 DEF Fits
    <2>2. QED
      BY <2>1 DEF WordsInv, ListNames
  <1>7. CASE Return(i)
    <2>1. op'[i].name = "none"
      BY <1>7 DEF Return, None, TypeInv
    <2>2. QED
      BY <2>1 DEF WordsInv
  <1>8. QED
    BY <1>1, <1>2, <1>3, <1>4, <1>5, <1>6, <1>7 DEF Step

(* What an access does to a module leaves its variables in their types.    *)
LEMMA EffectTypes ==
    ASSUME TypeInv, NEW i \in Instances, NEW a \in Acts, Effect(i, a),
           a.f = "F25" => Value(counted[i], a.a \div 2) < MaxPulses,
           a.f = "F25" => \E p \in Pairs : a.a = 2 * p
    PROVE  /\ counted' \in [Instances -> Count] /\ event' = event
           /\ fresh' \in [Instances -> SUBSET Channels] /\ lam' \in [Instances -> BOOLEAN]
  <1>1. /\ a.a \in Channels /\ 0 \in 0..(Words - 1) /\ counted[i] \in Count
        /\ counted \in [Instances -> Count]
    BY ReadoutAssumption DEF TypeInv, Acts, Count
  <1>2. a.f = "F25" => Add(counted[i], a.a) \in Count
    BY <1>1, PairOf, Adds
  <1>3. [counted[i] EXCEPT ![a.a] = 0] \in Count
    BY <1>1, Clears
  <1>4. CASE ByCounter(i, a)
    <2>1. \/ counted' = counted
          \/ counted' = [counted EXCEPT ![i] = [counted[i] EXCEPT ![a.a] = 0]]
          \/ a.f = "F25" /\ counted' = [counted EXCEPT ![i] = Add(counted[i], a.a)]
      BY <1>4 DEF ByCounter, Cleared
    <2>2. counted' \in [Instances -> Count]
      BY <1>1, <1>2, <1>3, <2>1
    <2>3. QED
      BY <1>4, <2>2 DEF ByCounter, TypeInv
  <1>5. CASE ByConverter(i, a)
    <2>1. /\ fresh \in [Instances -> SUBSET Channels] /\ lam \in [Instances -> BOOLEAN]
          /\ event' = event /\ counted' = counted
      BY <1>5 DEF ByConverter, TypeInv
    <2>2. fresh' \in [Instances -> SUBSET Channels]
      <3>1. \/ fresh' = fresh \/ fresh' = [fresh EXCEPT ![i] = fresh[i] \ {a.a}]
            \/ fresh' = [fresh EXCEPT ![i] = {}] \/ fresh' = [fresh EXCEPT ![i] = fresh[i]]
        BY <1>5, Zenon DEF ByConverter
      <3>2. QED
        BY <2>1, <3>1
    <2>3. lam' \in [Instances -> BOOLEAN]
      <3>1. \/ lam' = lam
            \/ \E up \in {lam[i], FALSE} : lam' = [lam EXCEPT ![i] = up]
        BY <1>5, Zenon DEF ByConverter
      <3>2. lam[i] \in BOOLEAN
        BY <2>1
      <3>3. QED
        BY <2>1, <3>1, <3>2
    <2>4. QED
      BY <1>1, <2>1, <2>2, <2>3
  <1>6. QED
    BY <1>4, <1>5 DEF Effect

(* An operation that begins notes the count, or the event.                 *)
LEMMA Notes ==
    ASSUME TypeInv, NEW i \in Instances, Call(i)
    PROVE  since' \in [Instances -> Nat]
  <1>1. PICK c \in Calls(class[i]) :
            since' = [since EXCEPT ![i] = IF i \in Counters /\ c[1] = "Read2"
                                          THEN Value(counted[i], c[2]) ELSE event[i]]
    BY DEF Call
  <1>2. class[i] \in Classes /\ counted[i] \in Count /\ event[i] \in Nat
    BY DEF TypeInv, Count
  <1>3. c[1] = "Read2" => c[2] \in Pairs
    BY <1>2, Programs
  <1>4. c[1] = "Read2" => Value(counted[i], c[2]) \in Nat
    BY <1>2, <1>3, Valued
  <1>5. (IF i \in Counters /\ c[1] = "Read2" THEN Value(counted[i], c[2]) ELSE event[i]) \in Nat
    BY <1>2, <1>4
  <1>6. QED
    BY <1>1, <1>5 DEF TypeInv

(* The number that a pulse counts into is that of its channel.             *)
LEMMA Pulsed ==
    ASSUME TypeInv, NEW i \in Instances, TodoInv(i), todo[i] # <<>>
    PROVE  Head1(i).f = "F25" => \E p \in Pairs : Head1(i).a = 2 * p
  BY Due DEF Fits

(* What a list brings is put into the list.                                *)
LEMMA Lists_ ==
    ASSUME TypeInv, NEW i \in Instances, TodoInv(i), Transferred(i)
    PROVE  list' \in [{"QDC_C0312", "TDC_C0309"} \X ListNames -> [Channels -> Data]]
  <1> DEFINE a == Head1(i)
             w == Brought(i, a)
  <1>1. todo[i] # <<>> /\ list' = Listed(i, a, w) /\ a.f \notin {"C", "Z", "copy"}
    BY DEF Transferred
  <1>2. w \in Seq(Data) /\ a \in Acts /\ op[i] # None
    BY <1>1, Brings, Due
  <1>3. CASE InList(i) /\ w # <<>>
    <2>1. <<class[i], op[i].name>> \in {"QDC_C0312", "TDC_C0309"} \X ListNames
      BY <1>2, <1>3 DEF TypeInv, TodoInv, InList, ListNames, NamesOf, Classes
    <2> HIDE DEF w, a
    <2>2. w[1] \in Data /\ a.a \in Channels
      BY <1>2, <1>3 DEF Acts
    <2>3. list' = [list EXCEPT ![<<class[i], op[i].name>>][a.a] = w[1]]
      BY <1>1, <1>3 DEF Listed
    <2> DEFINE l == <<class[i], op[i].name>>
    <2> HIDE DEF l
    <2>4. l \in {"QDC_C0312", "TDC_C0309"} \X ListNames
      BY <2>1 DEF l
    <2>5. list' = [list EXCEPT ![l][a.a] = w[1]]
      BY <2>3 DEF l
    <2>6. QED
      BY <2>2, <2>4, <2>5 DEF TypeInv
  <1>4. CASE ~(InList(i) /\ w # <<>>)
    BY <1>1, <1>4 DEF Listed, TypeInv
  <1>5. QED
    BY <1>3, <1>4

(* A step keeps the types.                                                 *)
LEMMA TypeStep ==
    ASSUME State, NEW i \in Instances, Step(i)
    PROVE  TypeInv'
  <1>0. TypeInv /\ TodoInv(i) /\ WordsInv(i) /\ counted \in [Instances -> Count]
    BY DEF State, TypeInv, Count
  <1>1. CASE Call(i)
    <2>1. /\ op' \in [Instances -> [name : Names, channel : Channels]]
          /\ todo' \in [Instances -> Seq(Acts)] /\ since' \in [Instances -> Nat]
      BY <1>0, <1>1, Begins, Notes
    <2>2. overlapped' \in [Instances -> BOOLEAN]
      BY <1>0, <1>1 DEF Call, TypeInv
    <2>3. wiped' \in [Instances -> BOOLEAN]
      BY <1>0, <1>1 DEF Call, TypeInv
    <2>4. UNCHANGED <<class, counted, event, fresh, lam, list, ignoreQ, told, rcs, data, due, spoiled>>
      BY <1>1 DEF Call, module
    <2>5. QED
      BY <1>0, <2>1, <2>2, <2>3, <2>4, Zenon DEF TypeInv
  <1>2. CASE IgnoreQ(i)
    <2>1. ignoreQ' \in [Instances -> BOOLEAN] /\ told' \in [Instances -> BOOLEAN]
      BY <1>0, <1>2 DEF IgnoreQ, TypeInv
    <2>2. /\ UNCHANGED <<class, counted, event, fresh, lam, list, op, todo, rcs, data, since>>
          /\ UNCHANGED <<due, spoiled, wiped, overlapped>>
      BY <1>2 DEF IgnoreQ, module, call, histories
    <2>3. QED
      BY <1>0, <2>1, <2>2, Zenon DEF TypeInv
  <1>3. CASE Pulse(i)
    <2>1. PICK p \in Pairs : Value(counted[i], p) < MaxPulses /\ Increment(i, p)
      BY <1>3 DEF Pulse
    <2>2. Add(counted[i], 2 * p) \in Count
      BY <1>0, <2>1, Adds
    <2>3. counted' \in [Instances -> [Channels -> 0..(Words - 1)]]
      BY <1>0, <2>1, <2>2 DEF Increment, Count
    <2>4. due' \in [Instances -> [Pairs -> Int]] /\ spoiled' \in [Instances -> BOOLEAN]
      BY <1>0, <2>1 DEF Increment, TypeInv
    <2>5. /\ UNCHANGED <<class, event, fresh, lam, list, ignoreQ, told, op, todo, rcs, data, since>>
          /\ UNCHANGED <<wiped, overlapped>>
      BY <1>3 DEF Pulse, call
    <2>6. QED
      BY <1>0, <2>3, <2>4, <2>5, Zenon DEF TypeInv
  <1>4. CASE Gate(i)
    <2>1. /\ event' \in [Instances -> Nat] /\ fresh' \in [Instances -> SUBSET Channels]
          /\ lam' \in [Instances -> BOOLEAN]
      BY <1>0, <1>4 DEF Gate, TypeInv
    <2>2. /\ UNCHANGED <<class, counted, list, ignoreQ, told, op, todo, rcs, data, since>>
          /\ UNCHANGED <<due, spoiled, wiped, overlapped>>
      BY <1>4 DEF Gate, call, histories
    <2>3. QED
      BY <1>0, <2>1, <2>2, Zenon DEF TypeInv
  <1>5. CASE Transferred(i)
    <2> DEFINE a == Head1(i)
    <2>1. todo[i] # <<>> /\ a.f \notin {"C", "Z", "copy"} /\ a \in Acts
      BY <1>0, <1>5, Due DEF Transferred
    <2>2. /\ Effect(i, a) /\ Account(i, a) /\ Advance(i) /\ class' = class /\ op' = op
          /\ Answered(i, Told(i, a, Answer(i, a)))
          /\ a.f = "F25" => Value(counted[i], a.a \div 2) < MaxPulses
      BY <1>5 DEF Transferred
    <2>3. /\ counted' \in [Instances -> Count] /\ event' = event
          /\ fresh' \in [Instances -> SUBSET Channels] /\ lam' \in [Instances -> BOOLEAN]
      BY <1>0, <2>1, <2>2, EffectTypes, Pulsed
    <2>4. todo' \in [Instances -> Seq(Acts)]
      BY <1>0, <2>1, <2>2, Advances
    <2>5. rcs' \in [Instances -> SUBSET Result] /\ Taken(i, a) \in Int
      BY <1>0, <2>1, <2>2, Brings DEF Answered, TypeInv
    <2>6. due' \in [Instances -> [Pairs -> Int]]
      <3>1. a.a \div 2 \in Pairs
        BY <2>1, ChannelOf DEF Acts
      <3> HIDE DEF a
      <3>2. due[i][a.a \div 2] + 1 \in Int /\ due[i][a.a \div 2] - Taken(i, a) \in Int
        BY <1>0, <2>5, <3>1 DEF TypeInv
      <3>3. QED
        BY <1>0, <2>2, <3>1, <3>2 DEF Account, TypeInv
    <2>7. /\ list' \in [{"QDC_C0312", "TDC_C0309"} \X ListNames -> [Channels -> Data]]
          /\ data' \in [Instances -> Seq(Data)]
      BY <1>0, <1>5, Lists_, Gains
    <2>8. UNCHANGED <<class, ignoreQ, told, op, since, spoiled, wiped, overlapped>>
      BY <1>5 DEF Transferred
    <2>9. QED
      BY <1>0, <2>3, <2>4, <2>5, <2>6, <2>7, <2>8, Zenon DEF TypeInv, Count
  <1>6. CASE Faulted(i)
    <2> DEFINE a == Head1(i)
    <2>1. todo[i] # <<>> /\ a \in Acts /\ Advance(i) /\ class' = class /\ op' = op
      BY <1>0, <1>6, Due DEF Faulted
    <2>2. /\ counted' \in [Instances -> Count] /\ event' = event
          /\ fresh' \in [Instances -> SUBSET Channels] /\ lam' \in [Instances -> BOOLEAN]
      <3>1. CASE a.f # "F25" /\ Effect(i, a)
        BY <1>0, <2>1, <3>1, EffectTypes
      <3>2. CASE UNCHANGED module
        BY <1>0, <3>2 DEF module, TypeInv
      <3>3. QED
        BY <1>6, <3>1, <3>2 DEF Faulted
    <2>3. todo' \in [Instances -> Seq(Acts)]
      BY <1>0, <2>1, Advances
    <2>4. Fault \in Result
      BY DEF Fault, Result, All, Errors, HardErrors
    <2>5. rcs' \in [Instances -> SUBSET Result]
      BY <1>0, <1>6, <2>4 DEF Faulted, Answered, TypeInv
    <2>6. spoiled' \in [Instances -> BOOLEAN]
      BY <1>0, <1>6 DEF Faulted, TypeInv
    <2>7. UNCHANGED <<class, ignoreQ, told, op, data, list, since, due, wiped, overlapped>>
      BY <1>6 DEF Faulted
    <2>8. QED
      BY <1>0, <2>2, <2>3, <2>5, <2>6, <2>7, Zenon DEF TypeInv, Count
  <1>7. CASE CrateReset(i)
    <2>1. todo[i] # <<>> /\ Advance(i) /\ class' = class /\ op' = op
      BY <1>7 DEF CrateReset
    <2>2. todo' \in [Instances -> Seq(Acts)]
      BY <1>0, <2>1, Advances
    <2>3. {} \in Result /\ Faults \subseteq Result
      BY DEF Fault, Faults, Result, All, Errors, HardErrors
    <2>4. rcs' \in [Instances -> SUBSET Result]
      <3>1. PICK rc \in {{}} \cup Faults : Answered(i, rc)
        BY <1>7, Zenon DEF CrateReset
      <3>2. rc \in Result
        BY <2>3
      <3>3. QED
        BY <1>0, <3>1, <3>2 DEF Answered, TypeInv
    <2>5. UNCHANGED <<class, event, list, ignoreQ, told, op, data, since, overlapped>>
      BY <1>7 DEF CrateReset, Wipe, module
    <2>6. /\ counted' \in [Instances -> Count]
          /\ fresh' \in [Instances -> SUBSET Channels] /\ lam' \in [Instances -> BOOLEAN]
          /\ due' \in [Instances -> [Pairs -> Int]]
          /\ spoiled' \in [Instances -> BOOLEAN] /\ wiped' \in [Instances -> BOOLEAN]
      <3>1. CASE Wipe
        <4>1. /\ fresh' \in [Instances -> SUBSET Channels] /\ lam' \in [Instances -> BOOLEAN]
          BY <1>0, <3>1 DEF Wipe, TypeInv
        <4>2. QED
          BY <3>1, <4>1, Zeros DEF Wipe, Clearing
      <3>2. CASE UNCHANGED <<module, due, spoiled, wiped>>
        BY <1>0, <3>2 DEF module, TypeInv
      <3>3. QED
        BY <1>7, <3>1, <3>2 DEF CrateReset
    <2>7. QED
      BY <1>0, <2>2, <2>4, <2>5, <2>6, Zenon DEF TypeInv, Count
  <1>8. CASE Copy(i)
    <2>1. todo[i] # <<>> /\ Advance(i) /\ class' = class /\ op' = op /\ Head1(i).f = "copy"
      BY <1>8 DEF Copy
    <2>2. todo' \in [Instances -> Seq(Acts)]
      BY <1>0, <2>1, Advances
    <2>3. <<class[i], op[i].name>> \in {"QDC_C0312", "TDC_C0309"} \X ListNames
      <3>1. Fits(class[i], op[i], Head1(i), Len(todo[i])) /\ op[i] # None
        BY <1>0, <2>1, Due
      <3>2. op[i].name \in ListNames
        BY <2>1, <3>1 DEF Fits
      <3>3. QED
        BY <1>0, <3>1, <3>2 DEF TypeInv, TodoInv, ListNames, NamesOf, Classes
    <2>4. data' \in [Instances -> Seq(Data)]
      <3> DEFINE l == list[<<class[i], op[i].name>>]
                 d == [n \in 1..nChannels |-> l[n - 1]]
      <3>1. l \in [Channels -> Data]
        BY <1>0, <2>3 DEF TypeInv
      <3>2. data' = [data EXCEPT ![i] = d]
        BY <1>8 DEF Copy
      <3> HIDE DEF l
      <3>3. \A n \in 1..nChannels : l[n - 1] \in Data
        BY <3>1, Sizes DEF Channels
      <3>4. d \in Seq(Data)
        BY <3>3, Sizes
      <3> HIDE DEF d
      <3>5. QED
        BY <1>0, <3>2, <3>4 DEF TypeInv
    <2>5. /\ UNCHANGED <<class, counted, event, fresh, lam, list, ignoreQ, told, op, rcs, since>>
          /\ UNCHANGED <<due, spoiled, wiped, overlapped>>
      BY <1>8 DEF Copy, module, histories
    <2>6. QED
      BY <1>0, <2>2, <2>4, <2>5, Zenon DEF TypeInv
  <1>9. CASE Return(i)
    <2>1. due' \in [Instances -> [Pairs -> Int]]
      <3>1. CASE op[i].name = "Read2clear" /\ Succeeds(i)
        <4>1. op[i].channel \in Pairs /\ class[i] = "Counter_S0301" /\ todo[i] = <<>>
          BY <1>0, <1>9, <3>1 DEF Return, Returned, TodoInv, TypeInv, NamesOf, ListNames, Classes
        <4>2. Made(i) \in Nat
          BY <1>0, <3>1, <4>1, NoFault, Makes
        <4>3. due[i][op[i].channel] - Made(i) \in Int
          BY <1>0, <4>1, <4>2 DEF TypeInv
        <4>4. due' = [due EXCEPT ![i][op[i].channel] = @ - Made(i)]
          BY <1>9, <3>1 DEF Return
        <4>5. QED
          BY <1>0, <4>1, <4>3, <4>4 DEF TypeInv
      <3>2. CASE ~(op[i].name = "Read2clear" /\ Succeeds(i))
        BY <1>0, <1>9, <3>2 DEF Return, TypeInv
      <3>3. QED
        BY <3>1, <3>2
    <2>2. /\ op' \in [Instances -> [name : Names, channel : Channels]]
          /\ rcs' \in [Instances -> SUBSET Result] /\ data' \in [Instances -> Seq(Data)]
          /\ since' \in [Instances -> Nat]
          /\ wiped' \in [Instances -> BOOLEAN] /\ overlapped' \in [Instances -> BOOLEAN]
      BY <1>0, <1>9, NoneIsNone DEF Return, TypeInv
    <2>3. UNCHANGED <<class, counted, event, fresh, lam, list, ignoreQ, told, todo, spoiled>>
      BY <1>9 DEF Return, module
    <2>4. QED
      BY <1>0, <2>1, <2>2, <2>3, Zenon DEF TypeInv
  <1>10. QED
    BY <1>1, <1>2, <1>3, <1>4, <1>5, <1>6, <1>7, <1>8, <1>9 DEF Step

(* A step of an instance leaves it with the rest of its program.           *)
LEMMA TodoStep ==
    ASSUME TypeInv, NEW i \in Instances, TodoInv(i), Step(i)
    PROVE  TodoInv(i)'
  <1>1. CASE Call(i)
    BY <1>1, Begins
  <1>2. CASE IgnoreQ(i) \/ Pulse(i) \/ Gate(i)
    BY <1>2, Rests DEF IgnoreQ, Pulse, Gate, call
  <1>3. CASE Transferred(i) \/ Faulted(i) \/ CrateReset(i) \/ Copy(i)
    <2>1. todo[i] # <<>> /\ Advance(i) /\ op' = op /\ class' = class
      BY <1>3, Zenon DEF Transferred, Faulted, CrateReset, Copy
    <2>2. QED
      BY <2>1, Advances
  <1>4. CASE Return(i)
    <2>1. todo[i] = <<>> /\ todo' = todo /\ class' = class
      BY <1>4 DEF Return, Returned
    <2>2. op'[i] = None /\ rcs'[i] = {} /\ data'[i] = <<>>
      BY <1>4 DEF Return, TypeInv
    <2>3. Len(todo'[i]) = 0
      BY <2>1
    <2>4. QED
      BY <2>1, <2>2, <2>3 DEF TodoInv, None
  <1>5. QED
    BY <1>1, <1>2, <1>3, <1>4 DEF Step

(* The steps of the system are those of an instance.                       *)
LEMMA Steps ==
    ASSUME [Next]_vars
    PROVE  (\E i \in Instances : Step(i)) \/ UNCHANGED vars
  BY Zenon DEF Next, Step

(* The whole of the basic invariant.                                       *)
LEMMA StateInit == Init => State
  <1>1. SUFFICES ASSUME Init PROVE State
    OBVIOUS
  <1>2. \A i \in Instances : /\ op[i] = None /\ todo[i] = <<>> /\ rcs[i] = {} /\ data[i] = <<>>
    BY <1>1 DEF Init
  <1>3. Nothing \in Data
    BY Sizes DEF Nothing, Data
  <1>4. TypeInv
    <2>1. class \in [Instances -> Classes]
      BY <1>1, ReadoutAssumption DEF Init
    <2>2. /\ counted \in [Instances -> [Channels -> 0..(Words - 1)]]
          /\ due \in [Instances -> [Pairs -> Int]]
      BY <1>1, Zeros DEF Init, Count
    <2>3. list \in [{"QDC_C0312", "TDC_C0309"} \X ListNames -> [Channels -> Data]]
      BY <1>1, <1>3 DEF Init, ListNames
    <2>4. op \in [Instances -> [name : Names, channel : Channels]]
      BY <1>1, NoneIsNone DEF Init
    <2>5. /\ event \in [Instances -> Nat] /\ fresh \in [Instances -> SUBSET Channels]
          /\ lam \in [Instances -> BOOLEAN] /\ ignoreQ \in [Instances -> BOOLEAN]
          /\ told \in [Instances -> BOOLEAN] /\ todo \in [Instances -> Seq(Acts)]
          /\ rcs \in [Instances -> SUBSET Result] /\ data \in [Instances -> Seq(Data)]
          /\ since \in [Instances -> Nat] /\ spoiled \in [Instances -> BOOLEAN]
          /\ wiped \in [Instances -> BOOLEAN] /\ overlapped \in [Instances -> BOOLEAN]
      BY <1>1 DEF Init
    <2>6. QED
      BY <2>1, <2>2, <2>3, <2>4, <2>5 DEF TypeInv
  <1>5. ASSUME NEW i \in Instances PROVE TodoInv(i) /\ WordsInv(i)
    <2>1. op[i].name = "none" /\ Len(todo[i]) = 0
      BY <1>2 DEF None
    <2>2. QED
      BY <1>2, <2>1 DEF TodoInv, WordsInv
  <1>6. QED
    BY <1>4, <1>5 DEF State

(* No step leaves it.                                                      *)
LEMMA StateStep == State /\ [Next]_vars => State'
  <1>1. SUFFICES ASSUME State, [Next]_vars PROVE State'
    OBVIOUS
  <1>2. CASE UNCHANGED vars
    <2>1. TypeInv'
      BY <1>1, <1>2 DEF State, TypeInv, vars, module, call, histories
    <2>2. \A i \in Instances : TodoInv(i)' /\ WordsInv(i)'
      BY <1>1, <1>2, Zenon DEF State, TodoInv, WordsInv, vars, call
    <2>3. QED
      BY <2>1, <2>2 DEF State
  <1>3. ASSUME NEW i \in Instances, Step(i) PROVE State'
    <2>1. TypeInv /\ TypeInv'
      BY <1>1, <1>3, TypeStep DEF State
    <2>2. ASSUME NEW j \in Instances PROVE TodoInv(j)' /\ WordsInv(j)'
      <3>1. TodoInv(j) /\ WordsInv(j)
        BY <1>1 DEF State
      <3>2. CASE j = i
        BY <1>3, <2>1, <3>1, <3>2, TodoStep, WordsStep
      <3>3. CASE j # i
        <4>1. TodoInv(j)' /\ Untouched(j)
          BY <1>3, <2>1, <3>1, <3>3, OthersTodo, Others
        <4>2. WordsInv(j)'
          BY <3>1, <4>1, Zenon DEF WordsInv, Untouched
        <4>3. QED
          BY <4>1, <4>2
      <3>4. QED
        BY <3>2, <3>3
    <2>3. QED
      BY <2>1, <2>2 DEF State
  <1>4. QED
    BY <1>1, <1>2, <1>3, Steps

(* Every variable of the drivers and their modules has its type, and the   *)
(* accesses that are left of an operation are those of its program.        *)
THEOREM Invariance == Spec => []State
  <1>1. QED
    BY StateInit, StateStep, PTL DEF Spec
-----------------------------------------------------------------------------
(* CZReset: what C and Z have answered tells whether one of them was done. *)
ResetInv(i) ==
    op[i].name = "CZReset" =>
        /\ class[i] # "LeCroy2249"
        /\ rcs[i] \subseteq {{}} \cup Faults
        /\ {} \in rcs[i] => wiped[i]
        /\ Len(todo[i]) < 2 => rcs[i] # {}
        /\ since[i] <= event[i]
        /\ wiped[i] /\ event[i] = since[i] /\ i \notin MaybeDeaf => fresh[i] = {} /\ ~lam[i]

(* The accesses of CZReset are C and Z.                                    *)
LEMMA ResetStep ==
    ASSUME State, NEW i \in Instances, ResetInv(i), Step(i)
    PROVE  ResetInv(i)'
  <1>0. TypeInv /\ TodoInv(i)
    BY DEF State
  <1>1. CASE Call(i)
    <2>1. op[i] = None /\ rcs' = rcs /\ class' = class
      BY <1>1 DEF Call
    <2>2. rcs'[i] = {} /\ Longest(class[i], op'[i], Len(todo'[i])) /\ TodoInv(i)'
      BY <1>0, <1>1, <2>1, Begins DEF TodoInv
    <2>3. op'[i].name = "CZReset" => Len(todo'[i]) = 2
      BY <2>2 DEF Longest
    <2>4. op'[i].name = "CZReset" => class'[i] # "LeCroy2249"
      BY <2>2 DEF TodoInv, NamesOf, None
    <2>5. op'[i].name = "CZReset" => since'[i] = event'[i] /\ event'[i] \in Nat
      BY <1>0, <1>1 DEF Call, module, TypeInv
    <2>6. ~wiped'[i]
      BY <1>0, <1>1 DEF Call, TypeInv
    <2>7. QED
      BY <2>2, <2>3, <2>4, <2>5, <2>6 DEF ResetInv
  <1>2. CASE IgnoreQ(i) \/ Pulse(i)
    BY <1>2, Zenon DEF IgnoreQ, Pulse, module, call, histories, ResetInv, MaybeDeaf
  <1>3. CASE Gate(i)
    <2>1. /\ event'[i] = event[i] + 1 /\ event[i] \in Nat /\ since[i] \in Nat
          /\ UNCHANGED <<class, op, todo, rcs, since, wiped>>
      BY <1>0, <1>3 DEF Gate, call, histories, TypeInv
    <2>2. since[i] <= event[i] => since'[i] <= event'[i] /\ since'[i] # event'[i]
      BY <2>1
    <2>3. QED
      BY <2>1, <2>2 DEF ResetInv
  <1>4. CASE Transferred(i) \/ Faulted(i) \/ Copy(i)
    <2>1. todo[i] # <<>> /\ Head1(i).f \notin {"C", "Z"} /\ op' = op
      BY <1>4 DEF Transferred, Faulted, Copy
    <2>2. op[i].name # "CZReset"
      BY <1>0, <2>1, Due DEF Fits
    <2>3. QED
      BY <2>1, <2>2 DEF ResetInv
  <1>5. CASE CrateReset(i)
    <2>1. /\ todo[i] # <<>> /\ op' = op /\ class' = class /\ event' = event /\ since' = since
          /\ op[i].name = "CZReset"
      BY <1>0, <1>5, Due DEF CrateReset, Fits, Wipe, module
    <2>2. \/ /\ wiped'[i] /\ Answered(i, {})
             /\ i \notin MaybeDeaf => fresh'[i] = {} /\ ~lam'[i]
          \/ /\ UNCHANGED <<wiped, fresh, lam>>
             /\ \E rc \in Faults : Answered(i, rc)
      BY <1>5 DEF CrateReset, Wipe, module
    <2>3. PICK rc \in {{}} \cup Faults :
              Answered(i, rc) /\ (rc = {} => wiped'[i]) /\ (wiped[i] => wiped'[i])
      BY <2>2 DEF Faults, Fault
    <2>4. rcs'[i] = rcs[i] \cup {rc}
      BY <1>0, <2>3 DEF Answered, TypeInv
    <2>5. \/ i \notin MaybeDeaf => fresh'[i] = {} /\ ~lam'[i]
          \/ UNCHANGED <<wiped, fresh, lam>>
      BY <2>2
    <2>6. MaybeDeaf' = MaybeDeaf
      BY <2>1 DEF MaybeDeaf
    <2>7. wiped'[i] /\ event'[i] = since'[i] /\ i \notin MaybeDeaf' => fresh'[i] = {} /\ ~lam'[i]
      BY <2>1, <2>5, <2>6 DEF ResetInv
    <2>8. QED
      BY <2>1, <2>3, <2>4, <2>7 DEF ResetInv
  <1>6. CASE Return(i)
    <2>1. op'[i].name = "none"
      BY <1>0, <1>6 DEF Return, None, TypeInv
    <2>2. QED
      BY <2>1 DEF ResetInv
  <1>7. QED
    BY <1>1, <1>2, <1>3, <1>4, <1>5, <1>6 DEF Step

(* And a reset of another's is one of this module, too.                    *)
LEMMA ResetOthers ==
    ASSUME State, NEW i \in Instances, NEW j \in Instances \ {i}, Step(i), ResetInv(j)
    PROVE  ResetInv(j)'
  <1>1. /\ Untouched(j) /\ (wiped[j] => wiped'[j])
        /\ \/ UNCHANGED <<wiped[j], fresh[j], lam[j]>>
           \/ class[j] # "TDC_C0301" => fresh'[j] = {} /\ ~lam'[j]
    BY Others DEF State, Left, Emptied
  <1>2. (j \in MaybeDeaf)' <=> j \in MaybeDeaf
    BY <1>1 DEF MaybeDeaf, Untouched
  <1>3. QED
    BY <1>1, <1>2 DEF ResetInv, Untouched, MaybeDeaf

(* CZReset, whose words are combined so that it succeeds when one of C and *)
(* Z does, never reports a reset that has not been done: what the module   *)
(* had to read and its LAM are gone, unless an event came since the call.  *)
THEOREM ResetsAreReal == Spec => []ResetIsReal
  <1> DEFINE Inv == \A i \in Instances : ResetInv(i)
  <1>1. Init => Inv
    BY DEF Init, ResetInv, None
  <1>2. State /\ Inv /\ [Next]_vars => Inv'
    <2>1. SUFFICES ASSUME State, Inv, [Next]_vars PROVE Inv'
      OBVIOUS
    <2>2. CASE UNCHANGED vars
      BY <2>1, <2>2, Zenon DEF ResetInv, MaybeDeaf, vars, module, call, histories
    <2>3. ASSUME NEW i \in Instances, Step(i) PROVE Inv'
      BY <2>1, <2>3, ResetStep, ResetOthers
    <2>4. QED
      BY <2>1, <2>2, <2>3, Steps
  <1>3. State /\ Inv => ResetIsReal
    <2>1. SUFFICES ASSUME State, Inv, NEW i \in Instances, Returned(i),
                          op[i].name = "CZReset", Succeeds(i), i \notin MaybeDeaf
                   PROVE  wiped[i] /\ (event[i] = since[i] => fresh[i] = {} /\ ~lam[i])
      BY Zenon DEF ResetIsReal
    <2>2. /\ class[i] # "LeCroy2249" /\ rcs[i] \subseteq {{}} \cup Faults /\ rcs[i] # {}
          /\ {} \in rcs[i] => wiped[i]
      BY <2>1 DEF ResetInv, Returned
    <2>3. ASSUME {} \notin rcs[i] PROVE FALSE
      <3>1. PICK rc \in Faults : rc \in rcs[i]
        BY <2>2, <2>3
      <3>2. Outcome(i) = Or(rcs[i]) /\ ~IsError(Outcome(i))
        BY <2>1, <2>2, <2>3 DEF Succeeds, Outcome, OfCZ
      <3>3. rc \subseteq Or(rcs[i]) /\ rc # {} /\ rc \subseteq Errors
        BY <3>1 DEF Or, Faults, Fault, Errors, HardErrors
      <3>4. QED
        BY <3>2, <3>3 DEF IsError
    <2>4. QED
      BY <2>1, <2>2, <2>3 DEF ResetInv
  <1>4. QED
    BY <1>1, <1>2, <1>3, Invariance, PTL DEF Spec

-----------------------------------------------------------------------------
(* An access to a counter, in an operation of its own.                     *)
LEMMA CounterAccess ==
    ASSUME TypeInv, NEW i \in Counters, TodoInv(i), Transferred(i)
    PROVE  /\ todo[i] # <<>> /\ Head1(i) \in Acts /\ Head1(i).f \in {"F0", "F2", "F9", "F25"}
           /\ Fits(class[i], op[i], Head1(i), Len(todo[i]))
           /\ Head1(i).f = "F0" => counted'[i] = counted[i]
           /\ Head1(i).f \in {"F2", "F9"} => counted'[i] = [counted[i] EXCEPT ![Head1(i).a] = 0]
           /\ Head1(i).f = "F25" => counted'[i] = Add(counted[i], Head1(i).a)
           /\ Head1(i).f = "F25" => Value(counted[i], Head1(i).a \div 2) < MaxPulses
           /\ due'[i] = [due[i] EXCEPT ![Head1(i).a \div 2] =
                            IF Head1(i).f = "F25" THEN @ + 1 ELSE @ - Taken(i, Head1(i))]
           /\ rcs'[i] = rcs[i] \cup {{}}
           /\ ~InList(i) /\ UNCHANGED <<class, op, since, spoiled, wiped>>
           /\ Len(todo[i]) \in Nat \ {0} /\ Len(todo'[i]) = Len(todo[i]) - 1
  <1> DEFINE a == Head1(i)
  <1>1. i \in Instances /\ class[i] = "Counter_S0301"
    BY DEF Counters
  <1>2. /\ todo[i] # <<>> /\ a.f \notin {"C", "Z", "copy"} /\ Effect(i, a) /\ Account(i, a)
        /\ Answered(i, Told(i, a, Answer(i, a))) /\ Advance(i)
        /\ UNCHANGED <<class, op, since, spoiled, wiped>>
        /\ a.f = "F25" => Value(counted[i], a.a \div 2) < MaxPulses
    BY DEF Transferred
  <1>3. /\ a \in Acts /\ Fits(class[i], op[i], a, Len(todo[i])) /\ op[i] # None
        /\ Len(todo[i]) \in Nat \ {0} /\ Len(todo'[i]) = Len(todo[i]) - 1
    BY <1>1, <1>2, Due, Advances
  <1>4. a.f \in {"F0", "F2", "F9", "F25"}
    BY <1>1, <1>2, <1>3 DEF Fits
  <1>5. ~InList(i)
    BY <1>1, <1>3 DEF InList, TodoInv, NamesOf
  <1>6. Told(i, a, Answer(i, a)) = {}
    <2> HIDE DEF a
    <2>1. Answer(i, a) = Q(a.f # "F9")
      BY DEF Answer
    <2>2. QED
      BY <1>1, <1>4, <2>1 DEF Told, Q
  <1>7. rcs'[i] = rcs[i] \cup {{}}
    BY <1>1, <1>2, <1>6 DEF Answered, TypeInv
  <1> HIDE DEF a
  <1>8. ByCounter(i, a)
    BY <1>2 DEF Effect
  <1>9. /\ a.f = "F0" => counted'[i] = counted[i]
        /\ a.f \in {"F2", "F9"} => counted'[i] = [counted[i] EXCEPT ![a.a] = 0]
        /\ a.f = "F25" => counted'[i] = Add(counted[i], a.a)
    BY <1>1, <1>8 DEF ByCounter, Cleared, TypeInv
  <1>10. due'[i] = [due[i] EXCEPT ![a.a \div 2] = IF a.f = "F25" THEN @ + 1 ELSE @ - Taken(i, a)]
    BY <1>1, <1>2 DEF Account, TypeInv
  <1>11. QED
    BY <1>2, <1>3, <1>4, <1>5, <1>7, <1>9, <1>10, Zenon DEF a

(* What is due less what is in the counter: an access takes as much off    *)
(* both, but for those of Read2clear, which account for it at the end.     *)
LEMMA Balance ==
    ASSUME TypeInv, NEW i \in Counters, TodoInv(i), Transferred(i), NEW q \in Pairs
    PROVE  LET a == Head1(i)
               taken == counted[i][a.a] * (IF a.a % 2 = 0 THEN 1 ELSE Words)
           IN  /\ ~Clearing(i) => due'[i][q] - Value(counted'[i], q) = due[i][q] - Value(counted[i], q)
               /\ Clearing(i) /\ a.f = "F0" =>
                     due'[i][q] = due[i][q] /\ Value(counted'[i], q) = Value(counted[i], q)
               /\ Clearing(i) /\ a.f \in {"F2", "F9"} =>
                     /\ due'[i][q] = due[i][q]
                     /\ q # a.a \div 2 => Value(counted'[i], q) = Value(counted[i], q)
                     /\ q = a.a \div 2 => Value(counted'[i], q) = Value(counted[i], q) - taken
  <1> DEFINE a == Head1(i)
             r == a.a \div 2
             taken == counted[i][a.a] * (IF a.a % 2 = 0 THEN 1 ELSE Words)
             w == counted[i]
             v == counted'[i]
             d == due[i]
             e == due'[i]
  <1>1. /\ todo[i] # <<>> /\ a \in Acts /\ a.f \in {"F0", "F2", "F9", "F25"}
        /\ Fits(class[i], op[i], a, Len(todo[i]))
        /\ a.f = "F0" => v = w
        /\ a.f \in {"F2", "F9"} => v = [w EXCEPT ![a.a] = 0]
        /\ a.f = "F25" => v = Add(w, a.a)
        /\ a.f = "F25" => Value(w, r) < MaxPulses
        /\ e = [d EXCEPT ![r] = IF a.f = "F25" THEN @ + 1 ELSE @ - Taken(i, a)]
    BY CounterAccess
  <1>2. /\ i \in Instances /\ w \in Count /\ a.a \in Channels /\ r \in Pairs
        /\ d \in [Pairs -> Int] /\ Words \in Nat
    BY <1>1, ChannelOf, ReadoutAssumption DEF TypeInv, Count, Counters, Acts
  <1>3. w[a.a] \in Nat /\ taken \in Int
    <2>1. w[a.a] \in Nat
      BY <1>2 DEF Count
    <2>2. QED
      BY <1>2, <2>1
  <1>4. Taken(i, a) = (IF a.f \in {"F2", "F9"} /\ ~Clearing(i) THEN taken ELSE 0)
    BY DEF Taken, Clearing
  <1>5. /\ Value(w, q) \in Nat /\ Value(w, r) \in Nat /\ d[q] \in Int /\ d[r] \in Int
    BY <1>2, Valued
  <1>6. Clearing(i) => a.f # "F25"
    BY <1>1 DEF Clearing, Fits, A
  <1> HIDE DEF a, r, taken, w, v, d, e
  <1>7. CASE a.f = "F0"
    <2>1. v = w /\ Taken(i, a) = 0
      BY <1>1, <1>4, <1>7
    <2>2. e[q] = d[q]
      BY <1>1, <1>2, <1>5, <1>7, <2>1
    <2>3. QED
      BY <1>7, <2>1, <2>2 DEF a, v, w, d, e
  <1>8. CASE a.f \in {"F2", "F9"}
    <2>1. v = [w EXCEPT ![a.a] = 0]
      BY <1>1, <1>8
    <2>2. /\ q # r => Value(v, q) = Value(w, q)
          /\ Value(v, r) = Value(w, r) - taken
      BY <1>2, <2>1, Clears DEF r, taken, w
    <2>3. e[q] = (IF q = r THEN d[q] - Taken(i, a) ELSE d[q])
      BY <1>1, <1>2, <1>8
    <2>4. CASE Clearing(i)
      <3>1. Taken(i, a) = 0
        BY <1>4, <2>4
      <3>2. e[q] = d[q]
        BY <1>5, <2>3, <3>1
      <3>3. QED
        BY <1>8, <2>2, <2>4, <3>2, Zenon DEF a, v, w, d, e, r, taken
    <2>5. CASE ~Clearing(i)
      <3>1. Taken(i, a) = taken
        BY <1>4, <1>8, <2>5
      <3>2. e[q] - Value(v, q) = d[q] - Value(w, q)
        BY <1>3, <1>5, <2>2, <2>3, <3>1
      <3>3. QED
        BY <2>5, <3>2, Zenon DEF a, v, w, d, e, r, taken
    <2>6. QED
      BY <2>4, <2>5
  <1>9. CASE a.f = "F25"
    <2>1. v = Add(w, a.a) /\ Value(w, r) < MaxPulses
      BY <1>1, <1>9
    <2>2. PICK p \in Pairs : a.a = 2 * p
      BY <1>1, <1>9 DEF Fits
    <2>3. p = r
      BY <2>2, PairOf DEF r
    <2>4. /\ Value(v, r) = Value(w, r) + 1
          /\ q # r => Value(v, q) = Value(w, q)
      BY <1>2, <2>1, <2>2, <2>3, Adds
    <2>5. e[q] = (IF q = r THEN d[q] + 1 ELSE d[q])
      BY <1>1, <1>2, <1>9
    <2>6. e[q] - Value(v, q) = d[q] - Value(w, q)
      BY <1>5, <2>4, <2>5
    <2>7. QED
      BY <1>6, <1>9, <2>6, Zenon DEF a, v, w, d, e, r, taken
  <1>10. QED
    BY <1>1, <1>7, <1>8, <1>9

(* What Read2clear has taken off a count and will report when it returns.  *)
Owed(i, p) ==
    IF ~Clearing(i) \/ op[i].channel # p \/ Len(todo[i]) >= 2 THEN 0
    ELSE IF Len(todo[i]) = 1 THEN data[i][2].value
    ELSE data[i][1].value * Words + data[i][2].value

(* The count is in the counter, and in what is owed; the high word that    *)
(* has been read is still there, until it is cleared.                      *)
CountInv(i) ==
    i \in Counters /\ ~spoiled[i] =>
        /\ Clearing(i) => rcs[i] \subseteq {{}}
        /\ Clearing(i) /\ Len(todo[i]) \in {1, 2} =>
              data[i][1].value = counted[i][2 * op[i].channel + 1]
        /\ \A p \in Pairs : due[i][p] = Value(counted[i], p) + Owed(i, p)

(* An access of another operation keeps the count.                         *)
LEMMA CountAccess ==
    ASSUME State, NEW i \in Counters, CountInv(i), Transferred(i), ~Clearing(i), ~spoiled[i]
    PROVE  CountInv(i)'
  <1>0. TypeInv /\ TodoInv(i) /\ i \in Instances
    BY DEF State, Counters
  <1>1. op' = op /\ class' = class
    BY DEF Transferred
  <1>2. ~Clearing(i)' /\ i \in Counters'
    BY <1>1 DEF Clearing, Counters
  <1>3. ASSUME NEW p \in Pairs
        PROVE  due'[i][p] = Value(counted'[i], p) + Owed(i, p)'
    <2>1. Owed(i, p) = 0 /\ Owed(i, p)' = 0
      BY <1>2 DEF Owed
    <2>2. due[i][p] = Value(counted[i], p) + 0
      BY <2>1 DEF CountInv
    <2>3. due'[i][p] - Value(counted'[i], p) = due[i][p] - Value(counted[i], p)
      BY <1>0, Balance
    <2>4. TypeInv'
      BY <1>0, TypeStep DEF Step
    <2>5. due'[i][p] \in Int /\ Value(counted'[i], p) \in Nat /\ Value(counted[i], p) \in Nat
      <3>1. counted[i] \in Count /\ counted'[i] \in Count /\ due'[i][p] \in Int
        BY <1>0, <2>4 DEF TypeInv, Count
      <3>2. QED
        BY <3>1, Valued
    <2>6. due'[i][p] = Value(counted'[i], p) + 0
      BY <2>2, <2>3, <2>5
    <2>7. QED
      BY <2>1, <2>6, Zenon
  <1>4. QED
    BY <1>2, <1>3 DEF CountInv

(* Those of Read2clear keep it, too: what they take off is owed.           *)
LEMMA CountClearing ==
    ASSUME State, NEW i \in Counters, CountInv(i), Transferred(i), Clearing(i), ~spoiled[i]
    PROVE  CountInv(i)'
  <1> DEFINE a == Head1(i)
             p == op[i].channel
             n == Len(todo[i])
             w == counted[i]
             v == counted'[i]
             d == data[i]
             e == data'[i]
  <1>0. TypeInv /\ TodoInv(i) /\ WordsInv(i) /\ i \in Instances /\ TypeInv'
    BY TypeStep DEF State, Counters, Step
  <1>1. /\ a \in Acts /\ Fits(class[i], op[i], a, n) /\ n \in Nat \ {0} /\ Len(todo'[i]) = n - 1
        /\ a.f = "F0" => v = w
        /\ a.f \in {"F2", "F9"} => v = [w EXCEPT ![a.a] = 0]
        /\ rcs'[i] = rcs[i] \cup {{}}
        /\ ~InList(i) /\ UNCHANGED <<class, op, spoiled>>
    BY <1>0, CounterAccess
  <1>2. /\ p \in Pairs /\ w \in Count /\ v \in Count /\ Words \in Nat
        /\ 2 * p + 1 \in Channels /\ 2 * p \in Channels /\ 2 * p # 2 * p + 1
    BY <1>0, PairOf, ReadoutAssumption DEF TodoInv, Clearing, TypeInv, Count
  <1>3. /\ rcs[i] \subseteq {{}}
        /\ n \in {1, 2} => d[1].value = w[2 * p + 1]
    BY DEF CountInv
  <1>4. Fault \notin rcs[i]
    BY <1>3 DEF Fault
  <1>5. \A q \in Pairs : due[i][q] = Value(w, q) + Owed(i, q)
    BY DEF CountInv
  <1>6. /\ Len(d) = 3 - n \/ (n = 0 /\ Len(d) = 2)
        /\ Len(d) \in 0..2
    BY <1>4, Zenon DEF WordsInv, Clearing, State, Counters
  <1>7. n \in 1..3 /\ Len(d) = 3 - n
    <2>1. n = 3 \/ n = 2 \/ n = 1
      BY <1>1 DEF Fits, Clearing
    <2>2. n # 0 /\ n \in 1..3
      BY <2>1
    <2>3. QED
      BY <1>6, <2>2, Zenon
  <1>8. /\ a.f \notin {"F0", "F2"} => e = d
        /\ a.f \in {"F0", "F2"} =>
              /\ e[Len(d) + 1].value = w[a.a]
              /\ \A m \in 1..Len(d) : e[m] = d[m]
    <2> DEFINE x == [of |-> i, channel |-> a.a,
                     value |-> IF i \in Counters THEN counted[i][a.a] ELSE event[i]]
    <2>1. x.value = w[a.a]
      OBVIOUS
    <2>2. /\ InList(i) \/ a.f \notin {"F0", "F2"} => e = d
          /\ ~InList(i) /\ a.f \in {"F0", "F2"} =>
                /\ Len(e) = Len(d) + 1 /\ e[Len(d) + 1] = x
                /\ \A m \in 1..Len(d) : e[m] = d[m]
      BY <1>0, Gains
    <2> HIDE DEF a, x, d, e, w
    <2>3. QED
      BY <1>1, <2>1, <2>2
  <1>9. /\ \A q \in Pairs : due'[i][q] = due[i][q]
        /\ \A q \in Pairs \ {p} : Value(v, q) = Value(w, q) /\ Owed(i, q) = 0 /\ Owed(i, q)' = 0
    <2>1. a.f \in {"F0", "F2", "F9"} /\ (a.f \in {"F2", "F9"} => a.a \div 2 = p)
      BY <1>1, <1>2, PairOf DEF Fits, Clearing, A
    <2>2. \A q \in Pairs : due'[i][q] = due[i][q]
      BY <1>0, <2>1, Balance
    <2>3. \A q \in Pairs \ {p} : Value(v, q) = Value(w, q)
      BY <1>0, <2>1, Balance
    <2>4. \A q \in Pairs \ {p} : Owed(i, q) = 0 /\ Owed(i, q)' = 0
      BY <1>1 DEF Owed
    <2>5. QED
      BY <2>2, <2>3, <2>4
  <1>10. Clearing(i)' /\ i \in Counters'
    BY <1>1 DEF Clearing, Counters
  <1>11. /\ Owed(i, p) = (IF n >= 2 THEN 0 ELSE d[2].value)
         /\ Owed(i, p)' = (IF n - 1 >= 2 THEN 0 ELSE IF n - 1 = 1 THEN e[2].value
                           ELSE e[1].value * Words + e[2].value)
    <2>1. op' = op /\ Len(todo'[i]) = n - 1
      BY <1>1
    <2>2. Owed(i, p) = (IF n >= 2 THEN 0 ELSE IF n = 1 THEN d[2].value
                        ELSE d[1].value * Words + d[2].value)
      BY DEF Owed
    <2>3. Owed(i, p)' = (IF Len(todo'[i]) >= 2 THEN 0 ELSE IF Len(todo'[i]) = 1 THEN e[2].value
                         ELSE e[1].value * Words + e[2].value)
      BY <1>10, <2>1 DEF Owed
    <2> HIDE DEF n, d, e, p
    <2>4. QED
      BY <1>7, <2>1, <2>2, <2>3
  <1>12. /\ n = 3 => e[1].value = w[2 * p + 1] /\ v = w
         /\ n = 2 => e[1].value = w[2 * p + 1] /\ e[2].value = w[2 * p] /\ v = [w EXCEPT ![2 * p] = 0]
         /\ n = 1 => e = d /\ v = [w EXCEPT ![2 * p + 1] = 0]
    <2>1. CASE n = 3
      <3>1. a = A("F0", 2 * p + 1) /\ Len(d) = 0
        BY <1>1, <1>7, <2>1 DEF Fits, Clearing
      <3>2. QED
        BY <1>1, <1>8, <2>1, <3>1 DEF A
    <2>2. CASE n = 2
      <3>1. a = A("F2", 2 * p) /\ Len(d) = 1
        BY <1>1, <1>7, <2>2 DEF Fits, Clearing
      <3>2. QED
        BY <1>1, <1>3, <1>8, <2>2, <3>1 DEF A
    <2>3. CASE n = 1
      <3>1. a = A("F9", 2 * p + 1)
        BY <1>1, <2>3 DEF Fits, Clearing
      <3>2. QED
        BY <1>1, <1>8, <2>3, <3>1 DEF A
    <2>4. QED
      BY <1>7, <2>1, <2>2, <2>3
  <1>13. due'[i][p] = Value(v, p) + Owed(i, p)'
    <2>1. due'[i][p] = Value(w, p) + Owed(i, p) /\ Value(w, p) = w[2 * p + 1] * Words + w[2 * p]
      BY <1>2, <1>5, <1>9, Valued
    <2>2. Value(v, p) = v[2 * p + 1] * Words + v[2 * p]
      BY <1>2, Valued
    <2>3. w[2 * p] \in Nat /\ w[2 * p + 1] \in Nat /\ w[2 * p + 1] * Words \in Nat
      BY <1>2, Valued
    <2>4. CASE n = 3
      <3>1. Owed(i, p) = 0 /\ Owed(i, p)' = 0
        BY <1>11, <2>4
      <3>2. QED
        BY <1>12, <2>1, <2>4, <3>1
    <2>5. CASE n = 2
      <3>1. Owed(i, p) = 0 /\ Owed(i, p)' = w[2 * p]
        BY <1>11, <1>12, <2>5
      <3>2. v[2 * p + 1] = w[2 * p + 1] /\ v[2 * p] = 0
        BY <1>2, <1>12, <2>5 DEF Count
      <3>3. Value(v, p) = w[2 * p + 1] * Words + 0
        BY <2>2, <3>2
      <3> HIDE DEF p, w, v, n, d, e
      <3>4. QED
        BY <2>1, <2>3, <3>1, <3>3
    <2>6. CASE n = 1
      <3>1. Owed(i, p) = d[2].value /\ Owed(i, p)' = e[1].value * Words + e[2].value
        BY <1>11, <2>6
      <3>2. Owed(i, p)' = w[2 * p + 1] * Words + d[2].value
        BY <1>3, <1>12, <2>6, <3>1
      <3>3. v[2 * p + 1] = 0 /\ v[2 * p] = w[2 * p]
        BY <1>2, <1>12, <2>6 DEF Count
      <3>4. Value(v, p) = 0 * Words + w[2 * p]
        BY <2>2, <3>3
      <3>5. d[2].value \in Nat
        <4>1. d \in Seq(Data) /\ Len(d) = 2
          BY <1>0, <1>7, <2>6 DEF TypeInv
        <4> HIDE DEF d
        <4>2. d[2] \in Data
          BY <4>1
        <4>3. QED
          BY <4>2 DEF Data
      <3> HIDE DEF p, w, v, n, d, e
      <3>6. QED
        BY <1>2, <2>1, <2>3, <3>1, <3>2, <3>4, <3>5
    <2>7. QED
      BY <1>7, <2>4, <2>5, <2>6
  <1>14. n - 1 \in {1, 2} => e[1].value = v[2 * p + 1]
    <2>1. CASE n = 3
      BY <1>12, <2>1
    <2>2. CASE n = 2
      BY <1>2, <1>12, <2>2 DEF Count
    <2>3. QED
      BY <1>7, <2>1, <2>2
  <1>15. ASSUME NEW q \in Pairs PROVE due'[i][q] = Value(v, q) + Owed(i, q)'
    <2>1. CASE q = p
      <3>1. op'[i].channel = op[i].channel
        BY <1>1
      <3>2. QED
        BY <1>13, <2>1, <3>1, Zenon
    <2>2. CASE q # p
      <3>1. due'[i][q] = due[i][q] /\ Value(v, q) = Value(w, q) /\ Owed(i, q) = 0 /\ Owed(i, q)' = 0
        BY <1>9, <2>2, Zenon
      <3>2. due[i][q] = Value(w, q) + Owed(i, q)
        BY <1>5
      <3>3. QED
        BY <3>1, <3>2, Zenon
    <2>3. QED
      BY <2>1, <2>2
  <1>16. rcs'[i] \subseteq {{}}
    BY <1>1, <1>3
  <1>17. op' = op /\ Len(todo'[i]) = n - 1
    BY <1>1
  <1>18. QED
    BY <1>14, <1>15, <1>16, <1>17, Zenon DEF CountInv

(* A pulse is due, and in the counter.                                     *)
LEMMA CountPulse ==
    ASSUME State, NEW i \in Counters, CountInv(i), Pulse(i)
    PROVE  CountInv(i)'
  <1>0. TypeInv /\ TodoInv(i) /\ i \in Instances
    BY DEF State, Counters
  <1>1. PICK r \in Pairs : Value(counted[i], r) < MaxPulses /\ Increment(i, r)
    BY DEF Pulse
  <1>2. UNCHANGED <<class, op, todo, rcs, data>>
    BY DEF Pulse, call
  <1> DEFINE w == counted[i]
             v == counted'[i]
             h == 2 * op[i].channel + 1
  <1>3. w \in Count /\ v = Add(w, 2 * r) /\ counted' = [counted EXCEPT ![i] = v]
    BY <1>0, <1>1 DEF TypeInv, Increment, Count
  <1>4. /\ v \in Count /\ Value(v, r) = Value(w, r) + 1
        /\ \A q \in Pairs \ {r} : Value(v, q) = Value(w, q)
    BY <1>1, <1>3, Adds
  <1>5. /\ due'[i][r] = due[i][r] + 1
        /\ \A q \in Pairs \ {r} : due'[i][q] = due[i][q]
    BY <1>0, <1>1 DEF Increment, TypeInv
  <1>6. spoiled'[i] = (spoiled[i] \/ (Clearing(i) /\ todo[i] # <<>> /\ v[2 * r + 1] # w[2 * r + 1]))
    BY <1>0, <1>1 DEF Increment, TypeInv
  <1>7. SUFFICES ASSUME ~spoiled'[i] PROVE CountInv(i)'
    BY DEF CountInv
  <1>8. ~spoiled[i] /\ (Clearing(i) /\ todo[i] # <<>> => v[2 * r + 1] = w[2 * r + 1])
    BY <1>6, <1>7
  <1>9. /\ Clearing(i) => rcs[i] \subseteq {{}}
        /\ Clearing(i) /\ Len(todo[i]) \in {1, 2} => data[i][1].value = w[h]
        /\ \A p \in Pairs : due[i][p] = Value(w, p) + Owed(i, p)
    BY <1>8 DEF CountInv
  <1>10. (Clearing(i)' <=> Clearing(i)) /\ \A p \in Pairs : Owed(i, p)' = Owed(i, p)
    BY <1>2, Zenon DEF Owed, Clearing
  <1>11. Clearing(i) /\ Len(todo[i]) \in {1, 2} => data'[i][1].value = v[h]
    <2>1. SUFFICES ASSUME Clearing(i), Len(todo[i]) \in {1, 2} PROVE v[h] = w[h]
      BY <1>2, <1>9
    <2>2. op[i].channel \in Pairs /\ todo[i] # <<>>
      BY <1>0, <2>1 DEF TodoInv, Clearing
    <2>3. CASE op[i].channel = r
      BY <1>8, <2>1, <2>2, <2>3
    <2>4. CASE op[i].channel # r
      <3>1. h \in Channels /\ h # 2 * r /\ h # 2 * r + 1
        BY <2>2, <2>4, PairOf
      <3> HIDE DEF h
      <3>2. QED
        BY <1>3, <3>1 DEF Add, Count
    <2>5. QED
      BY <2>3, <2>4
  <1>12. ASSUME NEW p \in Pairs PROVE due'[i][p] = Value(v, p) + Owed(i, p)
    <2>1. due[i][p] = Value(w, p) + Owed(i, p)
      BY <1>9
    <2>2. CASE p # r
      BY <1>4, <1>5, <2>1, <2>2
    <2>3. CASE p = r
      <3>1. Owed(i, r) \in Int
        <4> DEFINE d == data[i]
        <4>1. CASE Clearing(i) /\ op[i].channel = r /\ ~(Len(todo[i]) >= 2)
          <5>1. WordsInv(i) /\ Fault \notin rcs[i]
            BY <1>0, <1>9, <4>1 DEF State, Fault
          <5>2. /\ Len(d) = 3 - Len(todo[i]) \/ (Len(todo[i]) = 0 /\ Len(d) = 2)
                /\ Len(d) \in 0..2
            BY <4>1, <5>1, Zenon DEF WordsInv, Clearing
          <5>3. todo[i] \in Seq(Acts) /\ d \in Seq(Data)
            BY <1>0 DEF TypeInv
          <5> HIDE DEF d
          <5>4. Len(d) = 2
            <6>0. Len(todo[i]) \in Nat /\ ~(Len(todo[i]) >= 2)
              BY <4>1, <5>3
            <6>1. Len(todo[i]) = 0 \/ Len(todo[i]) = 1
              <7> DEFINE n == Len(todo[i])
              <7>1. n \in Nat /\ ~(n >= 2)
                BY <6>0
              <7> HIDE DEF n
              <7>2. n = 0 \/ n = 1
                BY <7>1
              <7>3. QED
                BY <7>2 DEF n
            <6>2. CASE Len(todo[i]) = 0
              BY <5>2, <6>2
            <6>3. CASE Len(todo[i]) = 1
              BY <5>2, <6>3
            <6>4. QED
              BY <6>1, <6>2, <6>3
          <5>5. d[1] \in Data /\ d[2] \in Data
            <6>1. \A n \in 1..Len(d) : d[n] \in Data
              BY <5>3
            <6>2. QED
              BY <5>4, <6>1
          <5>6. d[1].value \in Nat /\ d[2].value \in Nat
            BY <5>5 DEF Data
          <5>7. d[1].value * Words + d[2].value \in Int
            BY <5>6, ReadoutAssumption
          <5>8. QED
            BY <5>6, <5>7 DEF Owed, d
        <4>2. CASE ~(Clearing(i) /\ op[i].channel = r /\ ~(Len(todo[i]) >= 2))
          BY <4>2 DEF Owed
        <4>3. QED
          BY <4>1, <4>2
      <3>2. Value(w, r) \in Nat
        BY <1>3, Valued
      <3>3. due[i][r] = Value(w, r) + Owed(i, r)
        BY <2>1, <2>3
      <3>4. due'[i][r] = Value(v, r) + Owed(i, r)
        BY <1>4, <1>5, <3>1, <3>2, <3>3
      <3>5. QED
        BY <2>3, <3>4, Zenon
    <2>4. QED
      BY <2>2, <2>3
  <1>13. QED
    BY <1>2, <1>9, <1>10, <1>11, <1>12, Zenon DEF CountInv

(* A step of an instance keeps the count of its counter.                   *)
LEMMA CountStep ==
    ASSUME State, NEW i \in Instances, CountInv(i), Step(i)
    PROVE  CountInv(i)'
  <1>0. TypeInv /\ TodoInv(i) /\ WordsInv(i)
    BY DEF State
  <1>1. class' = class
    BY DEF Step, Call, IgnoreQ, Pulse, Gate, Transferred, Faulted, CrateReset, Copy, Return
  <1>2. SUFFICES ASSUME i \in Counters PROVE CountInv(i)'
    BY <1>1 DEF CountInv, Counters
  <1>3. CASE Call(i)
    <2>1. op[i] = None /\ UNCHANGED <<counted, rcs, due, spoiled>>
      BY <1>3 DEF Call, module
    <2>2. ~Clearing(i) /\ rcs[i] = {}
      BY <1>0, <2>1 DEF Clearing, None, TodoInv
    <2>3. Longest(class[i], op'[i], Len(todo'[i]))
      BY <1>0, <1>3, Begins
    <2>4. Clearing(i)' => Len(todo'[i]) = 3
      BY <2>3 DEF Clearing, Longest
    <2>5. ~Clearing(i)' \/ Len(todo'[i]) >= 2
      BY <2>4
    <2>6. \A p \in Pairs : Owed(i, p) = 0 /\ Owed(i, p)' = 0
      BY <2>2, <2>5, Zenon DEF Owed
    <2>7. /\ Clearing(i)' => Len(todo'[i]) \notin {1, 2}
          /\ \A p \in Pairs : Owed(i, p)' = Owed(i, p)
          /\ i \in Counters' <=> i \in Counters
          /\ rcs'[i] \subseteq {{}}
      BY <1>1, <2>1, <2>2, <2>4, <2>6 DEF Counters
    <2>8. QED
      BY <2>1, <2>7, Zenon DEF CountInv
  <1>4. CASE IgnoreQ(i)
    BY <1>1, <1>4, Zenon DEF IgnoreQ, module, call, histories, CountInv, Owed, Clearing, Counters
  <1>5. CASE Pulse(i)
    BY <1>2, <1>5, CountPulse
  <1>6. CASE Gate(i)
    BY <1>2, <1>6 DEF Gate
  <1>7. CASE Transferred(i)
    <2>1. spoiled' = spoiled
      BY <1>7 DEF Transferred
    <2>2. CASE spoiled[i]
      BY <2>1, <2>2 DEF CountInv
    <2>3. QED
      BY <1>2, <1>7, <2>2, CountAccess, CountClearing
  <1>8. CASE Faulted(i)
    <2>1. SUFFICES ASSUME ~spoiled'[i] PROVE CountInv(i)'
      BY DEF CountInv
    <2>2. ~spoiled[i] /\ Head1(i).f = "F0" /\ ~Clearing(i) /\ op' = op /\ due' = due
      BY <1>0, <1>2, <1>8, <2>1 DEF Faulted, TypeInv
    <2>3. counted'[i] = counted[i]
      <3>1. Effect(i, Head1(i)) \/ UNCHANGED module
        BY <1>8 DEF Faulted
      <3>2. QED
        BY <1>2, <2>2, <3>1 DEF Effect, ByCounter, module
    <2>4. ~Clearing(i)'
      BY <2>2 DEF Clearing
    <2>5. \A p \in Pairs : Owed(i, p) = 0 /\ Owed(i, p)' = 0
      BY <2>2, <2>4 DEF Owed
    <2>6. QED
      BY <1>2, <2>2, <2>3, <2>4, <2>5 DEF CountInv
  <1>9. CASE CrateReset(i)
    <2>1. op[i].name = "CZReset" /\ op' = op
      BY <1>0, <1>9, Due DEF CrateReset, Fits
    <2>2. ~Clearing(i) /\ ~Clearing(i)'
      BY <2>1 DEF Clearing
    <2>3. \A p \in Pairs : Owed(i, p) = 0 /\ Owed(i, p)' = 0
      BY <2>2 DEF Owed
    <2>4. CASE Wipe
      <3>1. counted'[i] = [c \in Channels |-> 0] /\ due'[i] = [p \in Pairs |-> 0]
        BY <2>4 DEF Wipe
      <3>2. \A p \in Pairs : due'[i][p] = 0 /\ Value(counted'[i], p) = 0
        BY <3>1, Zeros
      <3>3. QED
        BY <2>2, <2>3, <3>2 DEF CountInv
    <2>5. CASE UNCHANGED <<module, due, spoiled, wiped>>
      BY <1>2, <2>2, <2>3, <2>5 DEF CountInv, module
    <2>6. QED
      BY <1>9, <2>4, <2>5 DEF CrateReset
  <1>10. CASE Copy(i)
    <2>1. op[i].name \in ListNames /\ op' = op /\ UNCHANGED <<counted, due, spoiled>>
      <3>1. todo[i] # <<>> /\ Head1(i).f = "copy" /\ UNCHANGED <<op, counted, due, spoiled>>
        BY <1>10 DEF Copy, module, histories
      <3>2. Fits(class[i], op[i], Head1(i), Len(todo[i]))
        BY <1>0, <3>1, Due
      <3>3. QED
        BY <3>1, <3>2 DEF Fits
    <2>2. ~Clearing(i) /\ ~Clearing(i)'
      BY <2>1 DEF Clearing, ListNames
    <2>3. \A p \in Pairs : Owed(i, p) = 0 /\ Owed(i, p)' = 0
      BY <2>2 DEF Owed
    <2>4. QED
      BY <1>2, <2>1, <2>2, <2>3 DEF CountInv
  <1>11. CASE Return(i)
    <2>1. op'[i] = None /\ UNCHANGED <<counted, spoiled>> /\ todo[i] = <<>> /\ Len(todo[i]) = 0
      BY <1>0, <1>11 DEF Return, Returned, module, TypeInv
    <2>2. ~Clearing(i)'
      BY <2>1 DEF Clearing, None
    <2>3. \A p \in Pairs : Owed(i, p)' = 0
      BY <2>2 DEF Owed
    <2>4. SUFFICES ASSUME ~spoiled[i], NEW p \in Pairs PROVE due'[i][p] = Value(counted[i], p) + 0
      BY <2>1, <2>2, <2>3 DEF CountInv
    <2>5. /\ due[i][p] = Value(counted[i], p) + Owed(i, p) /\ (Clearing(i) => rcs[i] \subseteq {{}})
      BY <1>2, <2>4 DEF CountInv
    <2>6. Value(counted[i], p) \in Nat
      BY <1>0, Valued DEF TypeInv, Count
    <2>7. CASE ~Clearing(i)
      <3>1. due' = due /\ Owed(i, p) = 0
        BY <1>11, <2>7 DEF Return, Clearing, Owed
      <3>2. QED
        BY <2>5, <3>1
    <2>8. CASE Clearing(i)
      <3>1. Or(rcs[i]) = {}
        BY <2>5, <2>8 DEF Or
      <3>2. Succeeds(i) /\ op[i].name = "Read2clear"
        BY <1>2, <2>8, <3>1 DEF Succeeds, Outcome, Clearing, IsError, Counters
      <3>3. op[i].channel \in Pairs /\ due' = [due EXCEPT ![i][op[i].channel] = @ - Made(i)]
        BY <1>0, <1>11, <3>2 DEF Return, TodoInv
      <3>4. Fault \notin rcs[i]
        BY <2>5, <2>8 DEF Fault
      <3>5. Made(i) = data[i][1].value * Words + data[i][2].value /\ Made(i) \in Nat
        BY <1>0, <2>1, <3>2, <3>4, Makes
      <3>6. CASE p # op[i].channel
        <4>1. due'[i][p] = due[i][p] /\ Owed(i, p) = 0
          BY <1>0, <3>3, <3>6 DEF TypeInv, Owed
        <4>2. QED
          BY <2>5, <4>1
      <3>7. CASE p = op[i].channel
        <4>1. due'[i][p] = due[i][p] - Made(i)
          BY <1>0, <3>3, <3>7 DEF TypeInv
        <4>2. Owed(i, p) = Made(i)
          BY <2>1, <2>8, <3>5, <3>7 DEF Owed
        <4>3. QED
          BY <2>5, <2>6, <3>5, <4>1, <4>2
      <3>8. QED
        BY <3>6, <3>7
    <2>9. QED
      BY <2>7, <2>8
  <1>12. QED
    BY <1>3, <1>4, <1>5, <1>6, <1>7, <1>8, <1>9, <1>10, <1>11 DEF Step

(* Steps of others leave it alone, but for C and Z, which begin it anew.   *)
LEMMA CountOthers ==
    ASSUME State, NEW i \in Instances, NEW j \in Instances \ {i}, Step(i), CountInv(j)
    PROVE  CountInv(j)'
  <1>1. Untouched(j) /\ (Left(j) \/ Emptied(j))
    BY Others DEF State
  <1>2. (Clearing(j)' <=> Clearing(j)) /\ (j \in Counters' <=> j \in Counters)
    BY <1>1 DEF Untouched, Clearing, Counters
  <1>3. CASE Left(j)
    BY <1>1, <1>2, <1>3, Zenon DEF Untouched, Left, CountInv, Owed
  <1>4. CASE Emptied(j)
    <2>1. \A p \in Pairs : due'[j][p] = 0 /\ Value(counted'[j], p) = 0
      BY <1>4, Zeros DEF Emptied
    <2>2. spoiled'[j] = Clearing(j)
      BY <1>4 DEF Emptied
    <2>3. ~Clearing(j) => \A p \in Pairs : Owed(j, p)' = 0
      BY <1>2 DEF Owed
    <2>4. QED
      BY <1>2, <2>1, <2>2, <2>3 DEF CountInv
  <1>5. QED
    BY <1>1, <1>3, <1>4

(* Read2clear of Counter_S0301, whose words are read and cleared one by    *)
(* one while pulses arrive, loses no pulse and reports none twice, unless  *)
(* a carry, a C or a Z comes between its accesses, or one of them fails.   *)
THEOREM CountsKept == Spec => []CountsAreKept
  <1> DEFINE Inv == \A i \in Instances : CountInv(i)
  <1>1. Init => Inv
    <2>1. SUFFICES ASSUME Init, NEW i \in Instances PROVE CountInv(i)
      OBVIOUS
    <2>2. /\ op[i] = None /\ counted[i] = [c \in Channels |-> 0]
          /\ due[i] = [p \in Pairs |-> 0]
      BY <2>1 DEF Init
    <2>3. ~Clearing(i)
      BY <2>2 DEF Clearing, None
    <2>4. \A p \in Pairs : due[i][p] = 0 /\ Value(counted[i], p) = 0 /\ Owed(i, p) = 0
      BY <2>2, <2>3, Zeros DEF Owed
    <2>5. QED
      BY <2>3, <2>4 DEF CountInv
  <1>2. State /\ Inv /\ [Next]_vars => Inv'
    <2>1. SUFFICES ASSUME State, Inv, [Next]_vars PROVE Inv'
      OBVIOUS
    <2>2. CASE UNCHANGED vars
      BY <2>1, <2>2, Zenon DEF CountInv, Owed, Clearing, Counters, vars, module, call, histories
    <2>3. ASSUME NEW i \in Instances, Step(i) PROVE Inv'
      BY <2>1, <2>3, CountStep, CountOthers
    <2>4. QED
      BY <2>1, <2>2, <2>3, Steps
  <1>3. State /\ Inv => CountsAreKept
    <2>1. SUFFICES ASSUME State, Inv, NEW i \in Counters, op[i] = None, ~spoiled[i], NEW p \in Pairs
                   PROVE  due[i][p] = Value(counted[i], p)
      BY DEF CountsAreKept
    <2>2. CountInv(i) /\ counted[i] \in Count
      BY <2>1 DEF Counters, State, TypeInv, Count
    <2>3. Owed(i, p) = 0
      BY <2>1 DEF Owed, Clearing, None
    <2>4. due[i][p] = Value(counted[i], p) + Owed(i, p)
      BY <2>1, <2>2 DEF CountInv
    <2>5. Value(counted[i], p) \in Nat
      BY <2>2, Valued
    <2>6. QED
      BY <2>3, <2>4, <2>5
  <1>4. QED
    BY <1>1, <1>2, <1>3, Invariance, PTL DEF Spec

-----------------------------------------------------------------------------
(* Read2: the count grows while its words are read, so that the high word  *)
(* that has been read is no more than the one there, and no less than the  *)
(* one at the call.                                                        *)
CloseInv(i) ==
    op[i].name = "Read2" /\ ~wiped[i] =>
        /\ since[i] <= Value(counted[i], op[i].channel)
        /\ Fault \notin rcs[i] =>
              /\ Len(todo[i]) = 1 =>
                    /\ data[i][1].value <= counted[i][2 * op[i].channel + 1]
                    /\ since[i] < (data[i][1].value + 1) * Words
              /\ Len(todo[i]) = 0 =>
                    /\ data[i][1].value * Words + data[i][2].value <= Value(counted[i], op[i].channel)
                    /\ since[i] < (data[i][1].value + 1) * Words

(* A call of Read2 notes the count.                                        *)
LEMMA CloseCall ==
    ASSUME State, NEW i \in Instances, Call(i)
    PROVE  CloseInv(i)'
  <1>1. TypeInv /\ TodoInv(i)
    BY DEF State
  <1>2. PICK c \in Calls(class[i]) :
            /\ op' = [op EXCEPT ![i] = [name |-> c[1], channel |-> c[2]]]
            /\ since' = [since EXCEPT ![i] = IF i \in Counters /\ c[1] = "Read2"
                                             THEN Value(counted[i], c[2]) ELSE event[i]]
    BY DEF Call
  <1>3. UNCHANGED <<class, counted>>
    BY DEF Call, module
  <1>4. op'[i].name = c[1] /\ op'[i].channel = c[2]
    BY <1>1, <1>2 DEF TypeInv
  <1>5. Longest(class[i], op'[i], Len(todo'[i])) /\ TodoInv(i)' /\ op'[i].name # "none"
    BY <1>1, Begins
  <1>6. SUFFICES ASSUME op'[i].name = "Read2" PROVE CloseInv(i)'
    BY DEF CloseInv
  <1>7. Len(todo'[i]) = 2 /\ op'[i].channel \in Pairs
    BY <1>5, <1>6 DEF Longest, TodoInv
  <1>8. class[i] = "Counter_S0301"
    BY <1>1, <1>3, <1>5, <1>6 DEF TodoInv, NamesOf, None, ListNames, TypeInv, Classes
  <1>9. since'[i] = Value(counted[i], op'[i].channel)
    BY <1>1, <1>2, <1>4, <1>6, <1>8 DEF TypeInv, Counters
  <1>10. Value(counted[i], op'[i].channel) \in Nat
    BY <1>1, <1>7, Valued DEF TypeInv, Count
  <1>11. since'[i] <= Value(counted'[i], op'[i].channel)
    BY <1>3, <1>9, <1>10
  <1>12. QED
    BY <1>7, <1>11 DEF CloseInv

(* A pulse makes no word of a pair's high one less, nor a count.           *)
LEMMA Grows ==
    ASSUME TypeInv, NEW i \in Counters, Pulse(i), NEW p \in Pairs
    PROVE  /\ Value(counted[i], p) \in Nat /\ Value(counted'[i], p) \in Nat
           /\ counted[i][2 * p + 1] \in Nat /\ counted'[i][2 * p + 1] \in Nat
           /\ Value(counted[i], p) <= Value(counted'[i], p)
           /\ counted[i][2 * p + 1] <= counted'[i][2 * p + 1]
  <1>1. PICK r \in Pairs : Value(counted[i], r) < MaxPulses /\ Increment(i, r)
    BY DEF Pulse
  <1> DEFINE w == counted[i]
             v == counted'[i]
  <1>2. w \in Count /\ v = Add(w, 2 * r) /\ Words \in Nat
    BY <1>1, ReadoutAssumption DEF TypeInv, Increment, Count, Counters
  <1>3. /\ v \in Count /\ Value(v, r) = Value(w, r) + 1
        /\ \A q \in Pairs \ {r} : Value(v, q) = Value(w, q)
        /\ v[2 * r + 1] >= w[2 * r + 1]
    BY <1>1, <1>2, Adds
  <1>4. Value(w, p) \in Nat /\ Value(v, p) \in Nat
    BY <1>2, <1>3, Valued
  <1>5. w[2 * p + 1] \in 0..(Words - 1) /\ v[2 * p + 1] \in 0..(Words - 1)
    BY <1>2, <1>3, Valued
  <1>6. Value(w, p) <= Value(v, p)
    BY <1>3, <1>4
  <1>7. w[2 * p + 1] <= v[2 * p + 1]
    <2>1. CASE p = r
      BY <1>2, <1>3, <1>5, <2>1
    <2>2. CASE p # r
      <3>1. 2 * p + 1 \in Channels /\ 2 * p + 1 # 2 * r /\ 2 * p + 1 # 2 * r + 1
        BY <2>2, PairOf
      <3>2. v[2 * p + 1] = w[2 * p + 1]
        BY <1>2, <3>1 DEF Add, Count
      <3>3. QED
        BY <1>2, <1>5, <3>2
    <2>3. QED
      BY <2>1, <2>2
  <1>8. QED
    BY <1>2, <1>4, <1>5, <1>6, <1>7

(* While the count grows, what has been read of it stays close.            *)
LEMMA ClosePulse ==
    ASSUME State, NEW i \in Counters, CloseInv(i), Pulse(i)
    PROVE  CloseInv(i)'
  <1>0. TypeInv /\ TodoInv(i) /\ WordsInv(i) /\ i \in Instances
    BY DEF State, Counters
  <1>1. UNCHANGED <<op, todo, rcs, data, since, wiped>>
    BY DEF Pulse, call
  <1>2. SUFFICES ASSUME op[i].name = "Read2", ~wiped[i] PROVE CloseInv(i)'
    BY <1>1 DEF CloseInv
  <1> DEFINE p == op[i].channel
             w == counted[i]
             v == counted'[i]
             d == data[i]
             s == since[i]
  <1>3. p \in Pairs
    BY <1>0, <1>2 DEF TodoInv
  <1>4. /\ Value(w, p) \in Nat /\ Value(v, p) \in Nat /\ w[2 * p + 1] \in Nat /\ v[2 * p + 1] \in Nat
        /\ Value(w, p) <= Value(v, p) /\ w[2 * p + 1] <= v[2 * p + 1]
    BY <1>0, <1>3, Grows
  <1>5. /\ s <= Value(w, p)
        /\ Fault \notin rcs[i] =>
              /\ Len(todo[i]) = 1 => d[1].value <= w[2 * p + 1] /\ s < (d[1].value + 1) * Words
              /\ Len(todo[i]) = 0 => /\ d[1].value * Words + d[2].value <= Value(w, p)
                                     /\ s < (d[1].value + 1) * Words
    BY <1>2, Zenon DEF CloseInv
  <1>6. s \in Nat
    BY <1>0 DEF TypeInv
  <1>7. s <= Value(v, p)
    <2> HIDE DEF s, v, w, p
    <2>1. QED
      BY <1>4, <1>5, <1>6
  <1>8. ASSUME Fault \notin rcs[i], Len(todo[i]) = 1
        PROVE  d[1].value <= v[2 * p + 1] /\ s < (d[1].value + 1) * Words
    <2>1. d[1].value \in Nat
      <3>1. Len(d) = 1 /\ d \in Seq(Data)
        BY <1>0, <1>2, <1>8 DEF WordsInv, TypeInv
      <3> HIDE DEF d
      <3>2. d[1] \in Data
        BY <3>1
      <3>3. QED
        BY <3>2 DEF Data
    <2>2. d[1].value <= w[2 * p + 1] /\ s < (d[1].value + 1) * Words
      BY <1>5, <1>8
    <2> HIDE DEF d, v, w, p, s
    <2>3. QED
      BY <1>4, <2>1, <2>2
  <1>9. ASSUME Fault \notin rcs[i], Len(todo[i]) = 0
        PROVE  d[1].value * Words + d[2].value <= Value(v, p) /\ s < (d[1].value + 1) * Words
    <2>1. d[1].value * Words + d[2].value \in Nat
      <3>1. todo[i] = <<>>
        BY <1>0, <1>9 DEF TypeInv
      <3>2. QED
        BY <1>0, <1>2, <1>9, <3>1, Makes
    <2>2. d[1].value * Words + d[2].value <= Value(w, p) /\ s < (d[1].value + 1) * Words
      BY <1>5, <1>9
    <2> DEFINE m == d[1].value * Words + d[2].value
    <2>3. m \in Nat /\ m <= Value(w, p)
      BY <2>1, <2>2
    <2> HIDE DEF m, d, v, w, p, s
    <2>4. m <= Value(v, p)
      BY <1>4, <2>3
    <2>5. QED
      BY <2>2, <2>4 DEF m
  <1>10. QED
    BY <1>1, <1>7, <1>8, <1>9, Zenon DEF CloseInv

(* The two accesses of Read2.                                              *)
LEMMA CloseAccess ==
    ASSUME State, NEW i \in Counters, CloseInv(i), Transferred(i), op[i].name = "Read2", ~wiped[i]
    PROVE  CloseInv(i)'
  <1>0. TypeInv /\ TodoInv(i) /\ WordsInv(i) /\ i \in Instances
    BY DEF State, Counters
  <1> DEFINE a == Head1(i)
             p == op[i].channel
             w == counted[i]
             d == data[i]
             e == data'[i]
             s == since[i]
             n == Len(todo[i])
  <1>1. /\ Fits(class[i], op[i], a, n)
        /\ a.f = "F0" => counted'[i] = w
        /\ rcs'[i] = rcs[i] \cup {{}}
        /\ ~InList(i) /\ UNCHANGED <<class, op, since, spoiled, wiped>>
        /\ n \in Nat \ {0} /\ Len(todo'[i]) = n - 1
    BY <1>0, CounterAccess
  <1>2. p \in Pairs /\ n \in 1..2 /\ a = A("F0", 2 * p + n - 1)
    BY <1>0, <1>1 DEF TodoInv, Fits
  <1>3. a.f = "F0" /\ a.a = 2 * p + n - 1
    BY <1>2 DEF A
  <1>4. /\ w \in Count /\ Words \in Nat \ {0} /\ s \in Nat
        /\ w[2 * p] \in 0..(Words - 1) /\ w[2 * p + 1] \in 0..(Words - 1)
        /\ w[2 * p + 1] * Words \in Nat
        /\ Value(w, p) = w[2 * p + 1] * Words + w[2 * p]
    BY <1>0, <1>2, Valued, ReadoutAssumption DEF TypeInv, Count
  <1>5. s <= Value(w, p)
    BY DEF CloseInv
  <1>6. s <= Value(counted'[i], p)
    BY <1>1, <1>3, <1>5
  <1>7. ASSUME Fault \notin rcs[i] PROVE Len(d) = 2 - n
    BY <1>7, <1>0 DEF WordsInv
  <1>8. /\ e[Len(d) + 1].value = w[a.a]
        /\ \A m \in 1..Len(d) : e[m] = d[m]
    <2> DEFINE x == [of |-> i, channel |-> a.a,
                     value |-> IF i \in Counters THEN counted[i][a.a] ELSE event[i]]
    <2>1. x.value = w[a.a]
      OBVIOUS
    <2>2. ~InList(i) /\ a.f \in {"F0", "F2"} =>
                /\ Len(e) = Len(d) + 1 /\ e[Len(d) + 1] = x
                /\ \A m \in 1..Len(d) : e[m] = d[m]
      BY <1>0, Gains
    <2> HIDE DEF a, x, d, e, w
    <2>3. QED
      BY <1>1, <1>3, <2>1, <2>2
  <1>9. CASE n = 2
    <2>1. a.a = 2 * p + 1 /\ Len(todo'[i]) = 1
      BY <1>1, <1>2, <1>3, <1>9, PairOf
    <2>2. ASSUME Fault \notin rcs[i]
          PROVE  e[1].value <= w[2 * p + 1] /\ s < (e[1].value + 1) * Words
      <3>1. Len(d) = 0
        BY <1>7, <1>9, <2>2
      <3>2. e[1].value = w[2 * p + 1]
        BY <1>8, <2>1, <3>1
      <3> DEFINE h == w[2 * p + 1]
                 l == w[2 * p]
      <3>3. /\ h \in 0..(Words - 1) /\ l \in 0..(Words - 1) /\ h * Words \in Nat
            /\ s <= h * Words + l
        BY <1>4, <1>5
      <3> HIDE DEF h, l, s
      <3>4. (h + 1) * Words = h * Words + Words
        BY <1>4, <3>3
      <3>5. s < (h + 1) * Words
        BY <1>4, <3>3, <3>4
      <3>6. h <= h
        BY <3>3
      <3>7. QED
        BY <3>2, <3>5, <3>6, Zenon DEF h
    <2>3. Fault \notin rcs'[i] => Fault \notin rcs[i]
      BY <1>1
    <2>4. counted'[i] = w /\ op' = op /\ since' = since /\ wiped' = wiped
      BY <1>1, <1>3
    <2>5. QED
      BY <1>6, <2>1, <2>2, <2>3, <2>4 DEF CloseInv
  <1>10. CASE n = 1
    <2>1. a.a = 2 * p /\ Len(todo'[i]) = 0
      BY <1>1, <1>2, <1>3, <1>10, PairOf
    <2>2. ASSUME Fault \notin rcs[i]
          PROVE  e[1].value * Words + e[2].value <= Value(w, p) /\ s < (e[1].value + 1) * Words
      <3>1. Len(d) = 1
        BY <1>7, <1>10, <2>2
      <3>2. e[1] = d[1] /\ e[2].value = w[2 * p]
        BY <1>8, <2>1, <3>1
      <3>3. d[1].value <= w[2 * p + 1] /\ s < (d[1].value + 1) * Words
        BY <1>10, <2>2 DEF CloseInv
      <3>4. d[1].value \in Nat
        <4>1. d \in Seq(Data)
          BY <1>0 DEF TypeInv
        <4> HIDE DEF d
        <4>2. d[1] \in Data
          BY <3>1, <4>1
        <4>3. QED
          BY <4>2 DEF Data
      <3> DEFINE h == w[2 * p + 1]
                 l == w[2 * p]
                 g == d[1].value
      <3>5. /\ h \in 0..(Words - 1) /\ l \in 0..(Words - 1) /\ h * Words \in Nat
            /\ g <= h /\ g \in Nat /\ Value(w, p) = h * Words + l
        BY <1>4, <3>3, <3>4
      <3> HIDE DEF h, l, g
      <3>6. g * Words <= h * Words /\ g * Words \in Nat
        BY <1>4, <3>5
      <3>7. g * Words + l <= h * Words + l
        BY <3>5, <3>6
      <3>8. QED
        BY <3>2, <3>3, <3>5, <3>7 DEF g, l
    <2>3. Fault \notin rcs'[i] => Fault \notin rcs[i]
      BY <1>1
    <2>4. counted'[i] = w /\ op' = op /\ since' = since /\ wiped' = wiped
      BY <1>1, <1>3
    <2>5. QED
      BY <1>6, <2>1, <2>2, <2>3, <2>4 DEF CloseInv
  <1>11. QED
    BY <1>2, <1>9, <1>10

(* A step of an instance keeps what it has read close to the count.        *)
LEMMA CloseStep ==
    ASSUME State, NEW i \in Instances, CloseInv(i), Step(i)
    PROVE  CloseInv(i)'
  <1>0. TypeInv /\ TodoInv(i) /\ WordsInv(i)
    BY DEF State
  <1>1. op[i].name = "Read2" => i \in Counters
    BY <1>0 DEF TodoInv, NamesOf, None, ListNames, TypeInv, Classes, Counters
  <1>2. CASE Call(i)
    BY <1>2, CloseCall
  <1>3. CASE IgnoreQ(i) \/ Gate(i)
    BY <1>3, Zenon DEF IgnoreQ, Gate, module, call, histories, CloseInv
  <1>4. CASE Pulse(i)
    BY <1>4, ClosePulse DEF Pulse
  <1>5. SUFFICES ASSUME Transferred(i) \/ Faulted(i) \/ CrateReset(i) \/ Copy(i) \/ Return(i)
                 PROVE  CloseInv(i)'
    BY <1>2, <1>3, <1>4 DEF Step
  <1>6. CASE Return(i)
    <2>1. op'[i].name = "none"
      BY <1>0, <1>6 DEF Return, None, TypeInv
    <2>2. QED
      BY <2>1 DEF CloseInv
  <1>7. CASE Transferred(i) \/ Faulted(i) \/ CrateReset(i) \/ Copy(i)
    <2>1. op' = op /\ todo[i] # <<>>
      BY <1>7 DEF Transferred, Faulted, CrateReset, Copy
    <2>2. CASE op[i].name # "Read2"
      BY <2>1, <2>2 DEF CloseInv
    <2>3. CASE op[i].name = "Read2"
      <3>1. Head1(i).f = "F0" /\ i \in Counters
        BY <1>0, <1>1, <2>1, <2>3, Due DEF Fits, A
      <3>2. CASE Transferred(i)
        <4>1. wiped' = wiped
          BY <3>2 DEF Transferred
        <4>2. QED
          BY <2>3, <3>1, <3>2, <4>1, CloseAccess DEF CloseInv
      <3>3. CASE Faulted(i)
        <4>1. counted'[i] = counted[i]
          <5>1. Effect(i, Head1(i)) \/ UNCHANGED module
            BY <3>3 DEF Faulted
          <5>2. QED
            BY <3>1, <5>1 DEF Effect, ByCounter, module
        <4>2. Fault \in rcs'[i]
          BY <1>0, <3>3 DEF Faulted, Answered, TypeInv
        <4>3. UNCHANGED <<op, since, wiped>>
          BY <3>3 DEF Faulted
        <4>4. QED
          BY <4>1, <4>2, <4>3, Zenon DEF CloseInv
      <3>4. QED
        BY <1>7, <3>1, <3>2, <3>3 DEF CrateReset, Copy
    <2>4. QED
      BY <2>2, <2>3
  <1>8. QED
    BY <1>5, <1>6, <1>7

(* So do the steps of others, whose C and Z wipe it.                       *)
LEMMA CloseOthers ==
    ASSUME State, NEW i \in Instances, NEW j \in Instances \ {i}, Step(i), CloseInv(j)
    PROVE  CloseInv(j)'
  <1>1. Untouched(j) /\ (Left(j) \/ wiped'[j])
    BY Others DEF State, Emptied
  <1>2. QED
    BY <1>1, Zenon DEF CloseInv, Untouched, Left

(* The double word that Read2 answers while pulses are counted between its *)
(* two accesses is never more than the count, and less than what the count *)
(* was at the call by less than what a low word holds.                     *)
THEOREM ReadsAreClose == Spec => []ReadIsClose
  <1> DEFINE Inv == \A i \in Instances : CloseInv(i)
  <1>1. Init => Inv
    BY DEF Init, CloseInv, None
  <1>2. State /\ Inv /\ [Next]_vars => Inv'
    <2>1. SUFFICES ASSUME State, Inv, [Next]_vars PROVE Inv'
      OBVIOUS
    <2>2. CASE UNCHANGED vars
      BY <2>1, <2>2, Zenon DEF CloseInv, vars, module, call, histories
    <2>3. ASSUME NEW i \in Instances, Step(i) PROVE Inv'
      BY <2>1, <2>3, CloseStep, CloseOthers
    <2>4. QED
      BY <2>1, <2>2, <2>3, Steps
  <1>3. State /\ Inv => ReadIsClose
    <2>1. SUFFICES ASSUME State, Inv, NEW i \in Counters, Returned(i), op[i].name = "Read2",
                          Succeeds(i), ~wiped[i]
                   PROVE  /\ Made(i) <= Value(counted[i], op[i].channel)
                          /\ since[i] - Words < Made(i)
      BY DEF ReadIsClose
    <2>2. /\ CloseInv(i) /\ TypeInv /\ TodoInv(i) /\ WordsInv(i) /\ i \in Instances
          /\ class[i] # "LeCroy2249" /\ todo[i] = <<>> /\ Len(todo[i]) = 0
      BY <2>1 DEF Counters, State, Returned
    <2>3. Fault \notin rcs[i]
      BY <2>1, <2>2, NoFault
    <2>4. /\ Made(i) = data[i][1].value * Words + data[i][2].value
          /\ data[i][1].value \in Nat /\ data[i][2].value \in Nat
      BY <2>1, <2>2, <2>3, Makes
    <2>5. /\ data[i][1].value * Words + data[i][2].value <= Value(counted[i], op[i].channel)
          /\ since[i] < (data[i][1].value + 1) * Words
      BY <2>1, <2>2, <2>3, Zenon DEF CloseInv
    <2>6. since[i] - Words < Made(i)
      <3> DEFINE h == data[i][1].value
                 l == data[i][2].value
                 s == since[i]
                 m == Made(i)
      <3>1. /\ h \in Nat /\ l \in Nat /\ s \in Nat /\ Words \in Nat /\ m = h * Words + l
            /\ s < (h + 1) * Words
        BY <2>2, <2>4, <2>5, ReadoutAssumption DEF TypeInv
      <3> HIDE DEF h, l, s, m
      <3>2. (h + 1) * Words = h * Words + Words /\ h * Words \in Nat
        BY <3>1
      <3>3. s - Words < m
        BY <3>1, <3>2
      <3>4. QED
        BY <3>3 DEF s, m
    <2>7. QED
      BY <2>4, <2>5, <2>6
  <1>4. QED
    BY <1>1, <1>2, <1>3, Invariance, PTL DEF Spec

-----------------------------------------------------------------------------
(* A word that was measured by the module of the instance i, in the        *)
(* channel c, for an event that is no older than the call.                 *)
Good(i, w, c) == w.of = i /\ w.channel = c /\ w.value \in since[i]..event[i] \ {0}

(* The list an instance uses.                                              *)
Mine(i) == list[<<class[i], op[i].name>>]

(* Operations of converters whose accesses bring no word.                  *)
Wordless == {"CZReset", "reset", "checkLAM", "LeCroy2249"}

(* What is fresh was measured.                                             *)
FreshInv(i) ==
    /\ event[i] = 0 => fresh[i] = {}
    /\ i \notin Counters => since[i] <= event[i]

(* The words that a converter's driver has read one by one are its own;    *)
(* one that was never measured came without Q.                             *)
OwnInv(i) ==
    i \notin Counters /\ ~InList(i) =>
        \A n \in 1..Len(data[i]) :
            /\ data[i][n].of = i
            /\ data[i][n].channel = op[i].channel \/ op[i].name = "Test"
            /\ data[i][n].value \in since[i]..event[i]
            /\ data[i][n].value = 0 => {"NOT_Q"} \in rcs[i]
            /\ op[i].name \notin Wordless

(* The words that it has read by a list are good, in the list up to the    *)
(* access that is due and then in the copy, when no access has failed and  *)
(* no other instance has had the list in hand.                             *)
ListInv(i) ==
    InList(i) =>
        /\ Len(todo[i]) = 0 => Len(data[i]) = nChannels
        /\ Fault \notin rcs[i] /\ {"NOT_Q"} \notin rcs[i] /\ ~overlapped[i] =>
              /\ Len(todo[i]) # 0 => \A c \in Channels :
                    c + Len(todo[i]) <= Passed(class[i]) => Good(i, Mine(i)[c], c)
              /\ Len(todo[i]) = 0 => \A c \in Channels :
                    c < Passed(class[i]) => Good(i, data[i][c + 1], c)

(* Two instances that use the same list know of each other.                *)
SharedInv(i) ==
    \A j \in Instances \ {i} :
        InList(i) /\ class[j] = class[i] /\ op[j].name = op[i].name => overlapped[i]

DataInv(i) == FreshInv(i) /\ OwnInv(i) /\ ListInv(i)

(* What an access answers that brings a word from a converter.             *)
LEMMA ConverterAnswers ==
    ASSUME TypeInv, NEW i \in Instances \ Counters, TodoInv(i), Transferred(i),
           Head1(i).f \in {"F0", "F2"}
    PROVE  rcs'[i] = rcs[i] \cup {IF Head1(i).a \in fresh[i] THEN {} ELSE {"NOT_Q"}}
  <1> DEFINE a == Head1(i)
  <1>1. Answered(i, Told(i, a, Answer(i, a)))
    BY DEF Transferred
  <1> HIDE DEF a
  <1>2. a.f \in {"F0", "F2"} /\ i \notin Counters
    BY DEF a
  <1>3. Told(i, a, Answer(i, a)) = Q(a.a \in fresh[i])
    BY <1>2 DEF Told, Answer
  <1>4. rcs'[i] = rcs[i] \cup {Q(a.a \in fresh[i])}
    BY <1>1, <1>3 DEF Answered, TypeInv
  <1>5. QED
    BY <1>4 DEF Q, a

(* An access clears results and makes none.                                *)
LEMMA Stales ==
    ASSUME TypeInv, NEW i \in Instances, NEW a, Effect(i, a)
    PROVE  event' = event /\ fresh'[i] \subseteq fresh[i]
  <1>1. fresh' = fresh \/ \E s \in {{}, fresh[i], fresh[i] \ {a.a}} : fresh' = [fresh EXCEPT ![i] = s]
    BY Zenon DEF Effect, ByCounter, ByConverter
  <1>2. QED
    BY <1>1, Effects DEF TypeInv

(* An access that is done or fails: what it leaves as it was.              *)
LEMMA Accesses ==
    ASSUME TypeInv, NEW i \in Instances, TodoInv(i), Transferred(i) \/ Faulted(i)
    PROVE  /\ todo[i] # <<>> /\ Head1(i).f \notin {"C", "Z", "copy"}
           /\ Fits(class[i], op[i], Head1(i), Len(todo[i]))
           /\ Len(todo[i]) \in Nat \ {0} /\ Len(todo'[i]) = Len(todo[i]) - 1
           /\ UNCHANGED <<class, event, op, since, overlapped>> /\ fresh'[i] \subseteq fresh[i]
           /\ rcs[i] \subseteq rcs'[i]
  <1>1. /\ todo[i] # <<>> /\ Head1(i).f \notin {"C", "Z", "copy"} /\ Advance(i)
        /\ UNCHANGED <<class, op, since, overlapped>>
        /\ Effect(i, Head1(i)) \/ UNCHANGED module
        /\ \E rc : Answered(i, rc)
    BY DEF Transferred, Faulted
  <1>2. UNCHANGED event /\ fresh'[i] \subseteq fresh[i]
    BY <1>1, Stales DEF module
  <1>3. rcs[i] \subseteq rcs'[i]
    BY <1>1 DEF Answered, TypeInv
  <1>4. QED
    BY <1>1, <1>2, <1>3, Due, Advances

(* A step of an instance keeps what is fresh measured.                     *)
LEMMA FreshStep ==
    ASSUME State, NEW i \in Instances, FreshInv(i), Step(i)
    PROVE  FreshInv(i)'
  <1>0. TypeInv /\ TodoInv(i) /\ event[i] \in Nat /\ since[i] \in Nat
    BY DEF State, TypeInv
  <1>1. CASE Call(i)
    <2>1. UNCHANGED <<class, event, fresh>>
      BY <1>1 DEF Call, module
    <2>2. i \notin Counters => since'[i] = event[i]
      BY <1>0, <1>1 DEF Call, TypeInv
    <2>3. QED
      BY <1>0, <2>1, <2>2 DEF FreshInv, Counters
  <1>2. CASE IgnoreQ(i) \/ Pulse(i) \/ Copy(i)
    BY <1>2, Zenon DEF IgnoreQ, Pulse, Copy, module, call, FreshInv, Counters
  <1>3. CASE Gate(i)
    <2>1. event'[i] = event[i] + 1 /\ class' = class /\ since' = since
      BY <1>0, <1>3 DEF Gate, call, TypeInv
    <2>2. i \notin Counters => since[i] <= event[i]
      BY DEF FreshInv
    <2>3. event'[i] # 0 /\ (i \notin Counters => since[i] <= event'[i])
      BY <1>0, <2>1, <2>2
    <2>4. QED
      BY <2>1, <2>3 DEF FreshInv, Counters
  <1>4. CASE Transferred(i) \/ Faulted(i)
    BY <1>0, <1>4, Accesses DEF FreshInv, Counters
  <1>5. CASE CrateReset(i)
    <2>1. UNCHANGED <<class, event, since>> /\ fresh'[i] \in {fresh[i], {}}
      BY <1>5 DEF CrateReset, Wipe, module
    <2>2. QED
      BY <2>1 DEF FreshInv, Counters
  <1>6. CASE Return(i)
    <2>1. UNCHANGED <<class, event, fresh>> /\ since'[i] = 0
      BY <1>0, <1>6 DEF Return, module, TypeInv
    <2>2. QED
      BY <1>0, <2>1 DEF FreshInv, Counters
  <1>7. QED
    BY <1>1, <1>2, <1>3, <1>4, <1>5, <1>6 DEF Step

(* The words it has read stay its own.                                     *)
LEMMA OwnStep ==
    ASSUME State, NEW i \in Instances, FreshInv(i), OwnInv(i), Step(i)
    PROVE  OwnInv(i)'
  <1>0. TypeInv /\ TodoInv(i) /\ event[i] \in Nat /\ since[i] \in Nat /\ data[i] \in Seq(Data)
    BY DEF State, TypeInv
  <1>1. CASE Call(i)
    <2>1. data'[i] = <<>>
      BY <1>0, <1>1 DEF Call, TodoInv
    <2>2. Len(data'[i]) = 0
      BY <2>1
    <2>3. QED
      BY <2>2 DEF OwnInv
  <1>2. CASE IgnoreQ(i) \/ Pulse(i)
    BY <1>2, Zenon DEF IgnoreQ, Pulse, module, call, OwnInv, Counters, InList
  <1>3. CASE Gate(i)
    <2>1. event'[i] = event[i] + 1 /\ UNCHANGED <<class, op, data, since, rcs>>
      BY <1>0, <1>3 DEF Gate, call, TypeInv
    <2>2. since[i]..event[i] \subseteq since'[i]..event'[i]
      BY <1>0, <2>1
    <2>3. QED
      BY <2>1, <2>2, Zenon DEF OwnInv, InList, Counters
  <1>4. ASSUME Transferred(i) \/ Faulted(i), data'[i] = data[i] PROVE OwnInv(i)'
    BY <1>0, <1>4, Accesses DEF OwnInv, InList, Counters
  <1>5. CASE Faulted(i)
    BY <1>4, <1>5 DEF Faulted
  <1>6. CASE Transferred(i)
    <2> DEFINE a == Head1(i)
    <2>1. /\ Fits(class[i], op[i], a, Len(todo[i])) /\ UNCHANGED <<class, event, op, since>>
          /\ rcs[i] \subseteq rcs'[i] /\ a.f \notin {"C", "Z", "copy"} /\ op[i] # None
      BY <1>0, <1>6, Accesses, Due
    <2> DEFINE w == [of |-> i, channel |-> a.a,
                     value |-> IF i \in Counters THEN counted[i][a.a] ELSE event[i]]
    <2>2. /\ InList(i) \/ a.f \notin {"F0", "F2"} => data'[i] = data[i]
          /\ ~InList(i) /\ a.f \in {"F0", "F2"} =>
                /\ Len(data'[i]) = Len(data[i]) + 1 /\ data'[i][Len(data[i]) + 1] = w
                /\ \A n \in 1..Len(data[i]) : data'[i][n] = data[i][n]
      BY <1>0, <1>6, Gains
    <2>3. SUFFICES ASSUME a.f \in {"F0", "F2"}, ~InList(i), i \notin Counters PROVE OwnInv(i)'
      BY <1>4, <1>6, <2>1, <2>2 DEF OwnInv, InList, Counters
    <2>4. w.of = i /\ w.channel = a.a /\ w.value = event[i]
      BY <2>3
    <2>5. /\ Len(data'[i]) = Len(data[i]) + 1 /\ data'[i][Len(data[i]) + 1] = w
          /\ \A n \in 1..Len(data[i]) : data'[i][n] = data[i][n]
      BY <2>2, <2>3
    <2>6. rcs'[i] = rcs[i] \cup {IF a.a \in fresh[i] THEN {} ELSE {"NOT_Q"}}
      BY <1>0, <1>6, <2>3, ConverterAnswers
    <2>7. event[i] = 0 => {"NOT_Q"} \in rcs'[i]
      BY <2>6 DEF FreshInv
    <2>8. event[i] \in since[i]..event[i]
      BY <1>0, <2>3 DEF FreshInv
    <2>9. a.a = op[i].channel \/ op[i].name = "Test"
      BY <2>1, <2>3 DEF Fits, InList, ListNames, Counters
    <2>10. op[i].name \notin Wordless
      <3>1. op[i].name \in NamesOf(class[i]) /\ class[i] \in Classes
        BY <1>0, <2>1 DEF TodoInv, TypeInv
      <3>2. op[i].name # "CZReset"
        BY <2>1 DEF Fits
      <3>3. class[i] = "LeCroy2249" => op[i].name = "read"
        BY <2>1, <2>3 DEF Fits
      <3>4. op[i].name \in {"reset", "checkLAM", "LeCroy2249"} => class[i] = "LeCroy2249"
        BY <3>1 DEF NamesOf, ListNames, Classes
      <3>5. QED
        BY <3>2, <3>3, <3>4 DEF Wordless
    <2> HIDE DEF a, w
    <2>11. ASSUME NEW n \in 1..Len(data'[i])
           PROVE  /\ data'[i][n].of = i
                  /\ data'[i][n].channel = op[i].channel \/ op[i].name = "Test"
                  /\ data'[i][n].value \in since[i]..event[i]
                  /\ data'[i][n].value = 0 => {"NOT_Q"} \in rcs'[i]
                  /\ op[i].name \notin Wordless
      <3>1. CASE n \in 1..Len(data[i])
        <4>1. data'[i][n] = data[i][n]
          BY <2>5, <3>1
        <4>2. /\ data[i][n].of = i
              /\ data[i][n].channel = op[i].channel \/ op[i].name = "Test"
              /\ data[i][n].value \in since[i]..event[i]
              /\ data[i][n].value = 0 => {"NOT_Q"} \in rcs[i]
          BY <2>3, <3>1, Zenon DEF OwnInv
        <4>3. {"NOT_Q"} \in rcs[i] => {"NOT_Q"} \in rcs'[i]
          BY <2>1
        <4>4. QED
          BY <2>10, <4>1, <4>2, <4>3, Zenon
      <3>2. CASE n = Len(data[i]) + 1
        <4>1. data'[i][n] = w
          BY <2>5, <3>2
        <4>2. QED
          BY <2>4, <2>7, <2>8, <2>9, <2>10, <4>1, Zenon
      <3>3. n \in 1..Len(data[i]) \/ n = Len(data[i]) + 1
        BY <1>0, <2>5
      <3>4. QED
        BY <3>1, <3>2, <3>3
    <2>12. op'[i] = op[i] /\ since'[i] = since[i] /\ event'[i] = event[i]
      BY <2>1
    <2>13. QED
      BY <2>11, <2>12, Zenon DEF OwnInv
  <1>7. CASE CrateReset(i)
    <2>1. /\ op[i].name = "CZReset" /\ UNCHANGED <<class, event, op, data, since>>
          /\ \E rc : Answered(i, rc)
      BY <1>0, <1>7, Due DEF CrateReset, Fits, Wipe, module
    <2>2. rcs[i] \subseteq rcs'[i]
      BY <1>0, <2>1 DEF Answered, TypeInv
    <2>3. QED
      BY <2>1, <2>2 DEF OwnInv, InList, Counters
  <1>8. CASE Copy(i)
    <2>1. op[i].name \in ListNames /\ op' = op
      <3>1. todo[i] # <<>> /\ Head1(i).f = "copy" /\ op' = op
        BY <1>8 DEF Copy
      <3>2. Fits(class[i], op[i], Head1(i), Len(todo[i]))
        BY <1>0, <3>1, Due
      <3>3. QED
        BY <3>1, <3>2 DEF Fits
    <2>2. QED
      BY <2>1 DEF OwnInv, InList, ListNames
  <1>9. CASE Return(i)
    <2>1. data'[i] = <<>>
      BY <1>0, <1>9 DEF Return, TypeInv
    <2>2. Len(data'[i]) = 0
      BY <2>1
    <2>3. QED
      BY <2>2 DEF OwnInv
  <1>10. QED
    BY <1>1, <1>2, <1>3, <1>5, <1>6, <1>7, <1>8, <1>9 DEF Step

(* The classes whose instances have lists, and the key of a list.          *)
LEMMA Listers ==
    ASSUME TypeInv, NEW i \in Instances, TodoInv(i), InList(i)
    PROVE  /\ class[i] \in {"QDC_C0312", "TDC_C0309"} /\ i \notin Counters
           /\ op[i].name \in ListNames /\ Mine(i) \in [Channels -> Data]
  <1>1. op[i].name \in ListNames /\ op[i] # None
    BY DEF InList, ListNames, None
  <1>2. class[i] \in {"QDC_C0312", "TDC_C0309"}
    BY <1>1 DEF TypeInv, TodoInv, NamesOf, ListNames, Classes
  <1>3. <<class[i], op[i].name>> \in {"QDC_C0312", "TDC_C0309"} \X ListNames
    BY <1>1, <1>2
  <1>4. Mine(i) \in [Channels -> Data]
    BY <1>3 DEF TypeInv, Mine
  <1>5. QED
    BY <1>1, <1>2, <1>4 DEF Counters

(* A good word stays good while events come.                               *)
LEMMA StaysGood ==
    ASSUME TypeInv, NEW i \in Instances, NEW w, NEW c, Good(i, w, c), since'[i] = since[i],
           event'[i] \in Nat, event[i] <= event'[i]
    PROVE  w.of = i /\ w.channel = c /\ w.value \in since'[i]..event'[i] \ {0}
  <1>1. event[i] \in Nat /\ since[i] \in Nat
    BY DEF TypeInv
  <1>2. since[i]..event[i] \subseteq since'[i]..event'[i]
    BY <1>1
  <1>3. QED
    BY <1>2 DEF Good

(* What an access puts into the list of its instance.                      *)
LEMMA ListAccess ==
    ASSUME State, NEW i \in Instances, FreshInv(i), ListInv(i), InList(i), Transferred(i)
    PROVE  ListInv(i)'
  <1> DEFINE a == Head1(i)
             n == Len(todo[i])
             P == Passed(class[i])
  <1>0. TypeInv /\ TodoInv(i) /\ event[i] \in Nat /\ since[i] \in Nat
    BY DEF State, TypeInv
  <1>1. /\ Fits(class[i], op[i], a, n) /\ n \in Nat \ {0} /\ Len(todo'[i]) = n - 1
        /\ UNCHANGED <<class, event, op, since, overlapped>> /\ rcs[i] \subseteq rcs'[i]
        /\ todo[i] # <<>> /\ a.f \notin {"C", "Z", "copy"} /\ a \in Acts
    BY <1>0, Accesses, Due
  <1>2. /\ i \notin Counters /\ op[i].name \in ListNames /\ Mine(i) \in [Channels -> Data]
        /\ <<class[i], op[i].name>> \in {"QDC_C0312", "TDC_C0309"} \X ListNames
    BY <1>0, Listers
  <1>3. n # 1 /\ n \in 1..(P + 1) /\ a.f \in {"F0", "F2"} /\ a.a = P + 1 - n /\ P \in Nat
    BY <1>1, <1>2, PassedRange DEF Fits
  <1>4. Len(todo'[i]) # 0
    BY <1>1, <1>3
  <1>5. SUFFICES ASSUME Fault \notin rcs'[i], {"NOT_Q"} \notin rcs'[i], ~overlapped[i],
                        NEW c \in Channels, c + Len(todo'[i]) <= P
                 PROVE  Good(i, Mine(i)'[c], c)
    BY <1>1, <1>4 DEF ListInv, Good, InList
  <1>6. a.a \in fresh[i] /\ event[i] # 0 /\ since[i] <= event[i]
    BY <1>0, <1>2, <1>3, <1>5, ConverterAnswers DEF FreshInv
  <1> DEFINE w == [of |-> i, channel |-> a.a, value |-> event[i]]
             k == <<class[i], op[i].name>>
  <1>7. list' = [list EXCEPT ![k][a.a] = w]
    <2>1. Brought(i, a) = <<w>>
      BY <1>2, <1>3 DEF Brought
    <2>2. list' = Listed(i, a, Brought(i, a))
      BY DEF Transferred
    <2> DEFINE b == Brought(i, a)
    <2>3. b # <<>> /\ b[1] = w
      BY <2>1
    <2> HIDE DEF a, w, b
    <2>4. list' = [list EXCEPT ![<<class[i], op[i].name>>][a.a] = b[1]]
      BY <2>2, <2>3 DEF Listed, b
    <2>5. QED
      BY <2>3, <2>4 DEF k
  <1>8. Mine(i)' = [Mine(i) EXCEPT ![a.a] = w]
    <2>1. Mine(i)' = list'[k]
      BY <1>1 DEF Mine
    <2>2. k \in DOMAIN list /\ Mine(i) = list[k]
      BY <1>0, <1>2 DEF TypeInv, Mine
    <2> HIDE DEF k, a, w
    <2>3. QED
      BY <1>7, <2>1, <2>2
  <1>9. CASE c = a.a
    <2>1. Mine(i)'[c] = w
      BY <1>2, <1>8, <1>9
    <2>2. w.of = i /\ w.channel = c /\ w.value = event[i]
      BY <1>9
    <2>3. event[i] \in since[i]..event[i] \ {0}
      BY <1>0, <1>6
    <2>4. QED
      BY <2>1, <2>2, <2>3, Zenon DEF Good
  <1>10. CASE c # a.a
    <2>1. Mine(i)'[c] = Mine(i)[c]
      BY <1>2, <1>8, <1>10
    <2>2. c \in Nat /\ c + n <= P
      <3>1. c \in Nat
        BY Sizes
      <3> HIDE DEF n, P, a
      <3>2. QED
        BY <1>1, <1>3, <1>5, <1>10, <3>1
    <2>3. Good(i, Mine(i)[c], c)
      <3>1. Fault \notin rcs[i] /\ {"NOT_Q"} \notin rcs[i] /\ n # 0
        BY <1>1, <1>5
      <3>2. QED
        BY <1>5, <2>2, <3>1, Zenon DEF ListInv
    <2>4. QED
      BY <2>1, <2>3
  <1>11. QED
    BY <1>9, <1>10

(* A step of an instance keeps what it has read by a list.                 *)
LEMMA ListStep ==
    ASSUME State, NEW i \in Instances, FreshInv(i), ListInv(i), Step(i)
    PROVE  ListInv(i)'
  <1>0. TypeInv /\ TodoInv(i) /\ event[i] \in Nat /\ since[i] \in Nat /\ todo[i] \in Seq(Acts)
    BY DEF State, TypeInv
  <1>1. CASE Call(i)
    <2>1. SUFFICES ASSUME InList(i)' PROVE ListInv(i)'
      BY DEF ListInv
    <2>2. Longest(class[i], op'[i], Len(todo'[i])) /\ class' = class
      BY <1>0, <1>1, Begins DEF Call
    <2>3. Len(todo'[i]) = Passed(class'[i]) + 1 /\ Passed(class'[i]) \in Nat
      BY <2>1, <2>2, PassedRange DEF Longest, InList, ListNames
    <2>4. \A c \in Channels : ~(c + Len(todo'[i]) <= Passed(class'[i]))
      BY <2>3, Sizes
    <2>5. Len(todo'[i]) # 0
      BY <2>3
    <2>6. QED
      BY <2>4, <2>5 DEF ListInv
  <1>2. CASE IgnoreQ(i) \/ Pulse(i)
    <2>1. /\ UNCHANGED <<class, event, list, op, todo, rcs, data, since, overlapped>>
      BY <1>2 DEF IgnoreQ, Pulse, module, call, histories
    <2>2. QED
      BY <2>1, Zenon DEF ListInv, InList, Good, Mine
  <1>3. CASE Gate(i)
    <2>1. /\ event'[i] = event[i] + 1
          /\ UNCHANGED <<class, list, op, todo, rcs, data, since, overlapped>>
      BY <1>0, <1>3 DEF Gate, call, histories, TypeInv
    <2>2. event'[i] \in Nat /\ event[i] <= event'[i]
      BY <1>0, <2>1
    <2>3. ASSUME NEW w, NEW c, Good(i, w, c)
          PROVE  w.of = i /\ w.channel = c /\ w.value \in since'[i]..event'[i] \ {0}
      BY <1>0, <2>1, <2>2, <2>3, StaysGood
    <2>4. Mine(i)' = Mine(i)
      BY <2>1 DEF Mine
    <2>5. SUFFICES ASSUME InList(i) PROVE ListInv(i)'
      BY <2>1 DEF ListInv, InList
    <2>6. Len(todo'[i]) = 0 => Len(data'[i]) = nChannels
      BY <2>1, <2>5 DEF ListInv
    <2>7. ASSUME Fault \notin rcs'[i], {"NOT_Q"} \notin rcs'[i], ~overlapped'[i],
                 Len(todo'[i]) # 0, NEW c \in Channels, c + Len(todo'[i]) <= Passed(class'[i])
          PROVE  Good(i, Mine(i)[c], c)'
      <3>1. Good(i, Mine(i)[c], c)
        BY <2>1, <2>5, <2>7, Zenon DEF ListInv
      <3>2. QED
        BY <2>3, <2>4, <3>1, Zenon DEF Good
    <2>8. ASSUME Fault \notin rcs'[i], {"NOT_Q"} \notin rcs'[i], ~overlapped'[i],
                 Len(todo'[i]) = 0, NEW c \in Channels, c < Passed(class'[i])
          PROVE  Good(i, data[i][c + 1], c)'
      <3>1. Good(i, data[i][c + 1], c)
        BY <2>1, <2>5, <2>8, Zenon DEF ListInv
      <3>2. data'[i][c + 1] = data[i][c + 1]
        BY <2>1
      <3>3. QED
        BY <2>3, <3>1, <3>2, Zenon DEF Good
    <2>9. QED
      BY <2>6, <2>7, <2>8, Zenon DEF ListInv
  <1>4. CASE Transferred(i)
    <2>1. op' = op
      BY <1>4 DEF Transferred
    <2>2. QED
      BY <1>4, <2>1, ListAccess DEF ListInv, InList
  <1>5. CASE Faulted(i)
    <2>1. SUFFICES ASSUME InList(i)' PROVE ListInv(i)'
      BY DEF ListInv
    <2>2. /\ Fits(class[i], op[i], Head1(i), Len(todo[i])) /\ op' = op /\ Head1(i).f # "copy"
          /\ Len(todo[i]) \in Nat \ {0} /\ Len(todo'[i]) = Len(todo[i]) - 1
      BY <1>0, <1>5, Accesses
    <2>3. op[i].name \in ListNames
      BY <2>1, <2>2 DEF InList, ListNames
    <2>4. Len(todo[i]) # 1
      BY <2>2, <2>3 DEF Fits
    <2>5. Len(todo'[i]) # 0
      BY <2>2, <2>4
    <2>6. Fault \in rcs'[i]
      BY <1>0, <1>5 DEF Faulted, Answered, TypeInv
    <2>7. QED
      BY <2>5, <2>6 DEF ListInv
  <1>6. CASE CrateReset(i)
    <2>1. op[i].name = "CZReset" /\ op' = op
      BY <1>0, <1>6, Due DEF CrateReset, Fits
    <2>2. QED
      BY <2>1 DEF ListInv, InList
  <1>7. CASE Copy(i)
    <2> DEFINE l == Mine(i)
               d == [n \in 1..nChannels |-> l[n - 1]]
               P == Passed(class[i])
    <2>1. /\ todo[i] # <<>> /\ Head1(i).f = "copy" /\ Advance(i)
          /\ UNCHANGED <<class, event, list, op, rcs, since, overlapped>>
          /\ data' = [data EXCEPT ![i] = d]
      BY <1>7 DEF Copy, module, histories, Mine
    <2>2. /\ Fits(class[i], op[i], Head1(i), Len(todo[i]))
          /\ Len(todo[i]) \in Nat \ {0} /\ Len(todo'[i]) = Len(todo[i]) - 1
      BY <1>0, <2>1, Due, Advances
    <2>3. op[i].name \in ListNames /\ Len(todo[i]) = 1 /\ P \in Nat /\ P <= nChannels
      BY <2>1, <2>2, PassedRange DEF Fits
    <2>4. InList(i) /\ Len(todo'[i]) = 0
      BY <2>2, <2>3 DEF InList, ListNames
    <2>5. data'[i] = d
      BY <1>0, <2>1 DEF TypeInv
    <2>6. Len(d) = nChannels
      BY Sizes
    <2>7. ASSUME NEW c \in Channels, c < P, Fault \notin rcs[i], {"NOT_Q"} \notin rcs[i], ~overlapped[i]
          PROVE  Good(i, d[c + 1], c)
      <3>1. c \in Nat /\ c + 1 \in 1..nChannels /\ c + 1 - 1 = c /\ c + Len(todo[i]) <= P
        <4>1. c \in Nat /\ c < nChannels
          BY Sizes DEF Channels
        <4> HIDE DEF P
        <4>2. QED
          BY <2>3, <2>7, <4>1, Sizes
      <3>2. Good(i, l[c], c)
        BY <2>3, <2>4, <2>7, <3>1 DEF ListInv
      <3> HIDE DEF l
      <3>3. d[c + 1] = l[c]
        BY <3>1
      <3>4. QED
        BY <3>2, <3>3
    <2> HIDE DEF d
    <2>8. ASSUME NEW c \in Channels, c < P, Fault \notin rcs[i], {"NOT_Q"} \notin rcs[i], ~overlapped[i]
          PROVE  Good(i, data[i][c + 1], c)'
      BY <2>1, <2>5, <2>7, <2>8, Zenon DEF Good
    <2>9. QED
      BY <2>1, <2>4, <2>5, <2>6, <2>8 DEF ListInv
  <1>8. CASE Return(i)
    <2>1. op'[i].name = "none"
      BY <1>0, <1>8 DEF Return, None, TypeInv
    <2>2. QED
      BY <2>1 DEF ListInv, InList
  <1>9. QED
    BY <1>1, <1>2, <1>3, <1>4, <1>5, <1>6, <1>7, <1>8 DEF Step

(* A step of another instance leaves a list alone, but for one that uses   *)
(* the same list.                                                          *)
LEMMA ListElsewhere ==
    ASSUME State, NEW i \in Instances, NEW j \in Instances \ {i}, Step(i), InList(j),
           ~(class[i] = class[j] /\ op[i].name = op[j].name)
    PROVE  list'[<<class[j], op[j].name>>] = list[<<class[j], op[j].name>>]
  <1> DEFINE k == <<class[i], op[i].name>>
             l == <<class[j], op[j].name>>
  <1>1. TypeInv /\ l # k /\ l \in DOMAIN list
    <2>1. l \in {"QDC_C0312", "TDC_C0309"} \X ListNames
      BY Listers DEF State
    <2>2. QED
      BY <2>1 DEF State, TypeInv
  <1>2. CASE Transferred(i)
    <2>1. list' = Listed(i, Head1(i), Brought(i, Head1(i)))
      BY <1>2 DEF Transferred
    <2>2. list' = list \/ \E f : list' = [list EXCEPT ![k] = f]
      BY <2>1, Zenon DEF Listed
    <2> HIDE DEF k, l
    <2>3. QED
      BY <1>1, <2>2 DEF l
  <1>3. CASE ~Transferred(i)
    BY <1>3 DEF Step, Call, IgnoreQ, Pulse, Gate, Faulted, CrateReset, Copy, Return
  <1>4. QED
    BY <1>2, <1>3

(* The steps of another leave what an instance has read as it is, unless   *)
(* both have had the list in hand.                                         *)
LEMMA DataOthers ==
    ASSUME State, NEW i \in Instances, NEW j \in Instances \ {i}, Step(i), DataInv(j), SharedInv(j)
    PROVE  DataInv(j)'
  <1>1. /\ Untouched(j) /\ (fresh'[j] = fresh[j] \/ fresh'[j] = {})
        /\ overlapped[j] => overlapped'[j]
    BY Others DEF State, Left, Emptied
  <1>2. FreshInv(j)'
    BY <1>1 DEF DataInv, FreshInv, Untouched, Counters
  <1>3. OwnInv(j)'
    BY <1>1, Zenon DEF DataInv, OwnInv, Untouched, Counters, InList
  <1>4. ListInv(j)'
    <2>1. SUFFICES ASSUME InList(j) PROVE ListInv(j)'
      BY <1>1 DEF ListInv, InList, Untouched
    <2>2. CASE overlapped[j]
      <3>1. overlapped'[j] /\ (Len(todo[j]) = 0 => Len(data[j]) = nChannels)
        BY <1>1, <2>1, <2>2 DEF DataInv, ListInv
      <3>2. QED
        BY <1>1, <3>1, Zenon DEF ListInv, Untouched
    <2>3. CASE ~overlapped[j]
      <3>1. ~(class[i] = class[j] /\ op[i].name = op[j].name)
        BY <2>1, <2>3 DEF SharedInv
      <3>2. list'[<<class[j], op[j].name>>] = list[<<class[j], op[j].name>>]
        BY <2>1, <3>1, ListElsewhere
      <3>3. Mine(j)' = Mine(j)
        BY <1>1, <3>2, Zenon DEF Mine, Untouched
      <3>4. QED
        BY <1>1, <2>3, <3>3, Zenon DEF DataInv, ListInv, Good, Untouched, InList
    <2>4. QED
      BY <2>2, <2>3
  <1>5. QED
    BY <1>2, <1>3, <1>4 DEF DataInv

(* Two instances that use the same list go on knowing of each other.       *)
LEMMA SharedStep ==
    ASSUME State, \A j \in Instances : SharedInv(j), NEW i \in Instances, Step(i)
    PROVE  \A j \in Instances : SharedInv(j)'
  <1>0. TypeInv /\ class' = class
    BY DEF State, Step, Call, IgnoreQ, Pulse, Gate, Transferred, Faulted, CrateReset, Copy, Return
  <1>1. \A j \in Instances \ {i} : op'[j] = op[j] /\ (overlapped[j] => overlapped'[j])
    BY <1>0, Others DEF Untouched
  <1>2. SUFFICES ASSUME NEW j \in Instances, NEW k \in Instances \ {j}, InList(j)',
                        class[k] = class[j], op'[k].name = op'[j].name
                 PROVE  overlapped'[j]
    BY <1>0 DEF SharedInv
  <1>3. op'[j].name \in ListNames
    BY <1>2 DEF InList, ListNames
  <1>4. ASSUME op'[j].name = op[j].name, op'[k].name = op[k].name PROVE overlapped[j]
    <2>1. InList(j) /\ op[k].name = op[j].name
      BY <1>2, <1>3, <1>4 DEF InList, ListNames
    <2>2. QED
      BY <1>2, <2>1, Zenon DEF SharedInv
  <1>5. CASE j # i /\ k # i
    BY <1>1, <1>4, <1>5
  <1>6. CASE Call(i)
    <2>1. PICK c \in Calls(class[i]) :
              /\ op' = [op EXCEPT ![i] = [name |-> c[1], channel |-> c[2]]]
              /\ overlapped' = [m \in Instances |->
                    IF m = i THEN {n \in Instances \ {i} : class[n] = class[i] /\ op[n].name = c[1]} # {}
                    ELSE overlapped[m]
                         \/ m \in {n \in Instances \ {i} : class[n] = class[i] /\ op[n].name = c[1]}]
      BY <1>6, Zenon DEF Call
    <2>2. op'[i].name = c[1]
      BY <1>0, <2>1 DEF TypeInv
    <2>3. CASE j = i
      <3>1. k \in Instances \ {i} /\ class[k] = class[i] /\ op[k].name = c[1]
        BY <1>1, <1>2, <2>2, <2>3
      <3>2. QED
        BY <2>1, <2>3, <3>1
    <2>4. CASE k = i
      <3>1. j \in Instances \ {i} /\ class[j] = class[i] /\ op[j].name = c[1]
        BY <1>1, <1>2, <2>2, <2>4
      <3>2. QED
        BY <2>1, <3>1
    <2>5. QED
      BY <1>5, <2>3, <2>4
  <1>7. CASE Return(i)
    <2>1. op'[i].name = "none"
      BY <1>0, <1>7 DEF Return, None, TypeInv
    <2>2. QED
      BY <1>2, <1>3, <1>5, <2>1 DEF ListNames
  <1>8. CASE ~Call(i) /\ ~Return(i)
    <2>1. op' = op /\ overlapped' = overlapped
      BY <1>8 DEF Step, IgnoreQ, Pulse, Gate, Transferred, Faulted, CrateReset, Copy, call, histories
    <2>2. QED
      BY <1>4, <2>1
  <1>9. QED
    BY <1>6, <1>7, <1>8

(* An operation of a converter that succeeds has met neither a fault nor a *)
(* channel without a result, if it has read a word at all.                 *)
LEMMA CleanSuccess ==
    ASSUME TypeInv, NEW i \in Instances, TodoInv(i), Succeeds(i), op[i].name \notin Wordless,
           class[i] = "LeCroy2249" => ~ignoreQ[i], op[i] # None
    PROVE  Fault \notin rcs[i] /\ {"NOT_Q"} \notin rcs[i]
  <1>1. CASE class[i] # "LeCroy2249"
    BY <1>1, NoFault DEF Wordless
  <1>2. CASE class[i] = "LeCroy2249"
    <2>1. op[i].name = "read"
      BY <1>2 DEF TodoInv, NamesOf, Wordless
    <2>2. ~Throws(i)
      BY <1>2 DEF Succeeds
    <2>3. Or(rcs[i]) \ {} = {}
      BY <1>2, <2>1, <2>2 DEF Throws
    <2>4. ASSUME NEW e, {e} \in rcs[i] PROVE FALSE
      BY <2>3, <2>4 DEF Or
    <2>5. QED
      BY <2>4 DEF Fault
  <1>3. QED
    BY <1>1, <1>2

(* What a converter's driver answers without an error was measured by this *)
(* module, in this channel, for an event no older than the call, though    *)
(* the list it came by belongs to the class, unless two instances used the *)
(* list at once, or the Q of a LeCroy 2249 was ignored.                    *)
THEOREM DataAreMine == Spec => []DataIsMine
  <1> DEFINE Inv == \A i \in Instances : DataInv(i) /\ SharedInv(i)
  <1>1. Init => Inv
    <2>1. SUFFICES ASSUME Init, NEW i \in Instances PROVE DataInv(i) /\ SharedInv(i)
      OBVIOUS
    <2>2. op[i] = None /\ data[i] = <<>> /\ fresh[i] = {} /\ since[i] = 0 /\ event[i] = 0
      BY <2>1 DEF Init
    <2>3. ~InList(i) /\ Len(data[i]) = 0
      BY <2>2 DEF InList, None
    <2>4. QED
      BY <2>2, <2>3 DEF DataInv, FreshInv, OwnInv, ListInv, SharedInv
  <1>2. State /\ Inv /\ [Next]_vars => Inv'
    <2>1. SUFFICES ASSUME State, Inv, [Next]_vars PROVE Inv'
      OBVIOUS
    <2>2. CASE UNCHANGED vars
      <3>1. /\ UNCHANGED <<class, event, fresh, list, op, todo, rcs, data, since, overlapped>>
        BY <2>2 DEF vars, module, call, histories
      <3>2. ASSUME NEW i \in Instances PROVE DataInv(i)' /\ SharedInv(i)'
        <4>1. FreshInv(i)'
          BY <2>1, <3>1, Zenon DEF DataInv, FreshInv, Counters
        <4>2. OwnInv(i)'
          BY <2>1, <3>1, Zenon DEF DataInv, OwnInv, InList, Counters
        <4>3. ListInv(i)'
          BY <2>1, <3>1, Zenon DEF DataInv, ListInv, InList, Good, Mine
        <4>4. SharedInv(i)'
          BY <2>1, <3>1, Zenon DEF SharedInv, InList
        <4>5. QED
          BY <4>1, <4>2, <4>3, <4>4 DEF DataInv
      <3>3. QED
        BY <3>2
    <2>3. ASSUME NEW i \in Instances, Step(i) PROVE Inv'
      <3>1. \A j \in Instances : SharedInv(j)'
        BY <2>1, <2>3, SharedStep
      <3>2. ASSUME NEW j \in Instances PROVE DataInv(j)'
        <4>1. CASE j = i
          BY <2>1, <2>3, <4>1, FreshStep, OwnStep, ListStep DEF DataInv
        <4>2. CASE j # i
          BY <2>1, <2>3, <4>2, DataOthers
        <4>3. QED
          BY <4>1, <4>2
      <3>3. QED
        BY <3>1, <3>2
    <2>4. QED
      BY <2>1, <2>2, <2>3, Steps
  <1>3. State /\ Inv => DataIsMine
    <2>1. SUFFICES ASSUME State, Inv, NEW i \in Instances \ Counters, Returned(i), Succeeds(i),
                          ~overlapped[i], class[i] = "LeCroy2249" => told[i] /\ ~ignoreQ[i],
                          NEW n \in Meant(i)
                   PROVE  /\ data[i][n].of = i
                          /\ \/ data[i][n].channel = (IF InList(i) THEN n - 1 ELSE op[i].channel)
                             \/ op[i].name = "Test"
                          /\ data[i][n].value \in since[i]..event[i] \ {0}
      BY DEF DataIsMine
    <2>2. /\ TypeInv /\ TodoInv(i) /\ FreshInv(i) /\ OwnInv(i) /\ ListInv(i)
          /\ op[i] # None /\ Len(todo[i]) = 0 /\ data[i] \in Seq(Data)
      BY <2>1 DEF State, DataInv, Returned, TypeInv
    <2>3. CASE InList(i)
      <3>1. class[i] \in {"QDC_C0312", "TDC_C0309"} /\ op[i].name \notin Wordless
        BY <2>2, <2>3, Listers DEF ListNames, Wordless
      <3>2. Fault \notin rcs[i] /\ {"NOT_Q"} \notin rcs[i]
        BY <2>1, <2>2, <3>1, CleanSuccess
      <3>3. /\ Len(data[i]) = nChannels
            /\ \A c \in Channels : c < Passed(class[i]) => Good(i, data[i][c + 1], c)
        BY <2>1, <2>2, <2>3, <3>2, Zenon DEF ListInv
      <3>4. n \in 1..Passed(class[i]) /\ Passed(class[i]) \in Nat /\ Passed(class[i]) <= nChannels
        <4>1. DOMAIN data[i] = 1..nChannels
          BY <2>2, <3>3
        <4>2. QED
          BY <2>1, <2>3, <3>1, <4>1, PassedRange DEF Meant, Passed
      <3>5. n - 1 \in Channels /\ n - 1 < Passed(class[i]) /\ n - 1 + 1 = n
        BY <3>4, Sizes DEF Channels
      <3>6. Good(i, data[i][n], n - 1)
        BY <3>3, <3>5
      <3>7. QED
        BY <2>3, <3>6 DEF Good
    <2>4. CASE ~InList(i)
      <3>1. n \in 1..Len(data[i])
        BY <2>1, <2>2, <2>4 DEF Meant
      <3>2. /\ data[i][n].of = i
            /\ data[i][n].channel = op[i].channel \/ op[i].name = "Test"
            /\ data[i][n].value \in since[i]..event[i]
            /\ data[i][n].value = 0 => {"NOT_Q"} \in rcs[i]
            /\ op[i].name \notin Wordless
        BY <2>1, <2>2, <2>4, <3>1, Zenon DEF OwnInv
      <3>3. {"NOT_Q"} \notin rcs[i]
        BY <2>1, <2>2, <3>2, CleanSuccess
      <3>4. QED
        BY <2>4, <3>2, <3>3
    <2>5. QED
      BY <2>3, <2>4
  <1>4. QED
    BY <1>1, <1>2, <1>3, Invariance, PTL DEF Spec
=============================================================================
