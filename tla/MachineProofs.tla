--------------------------- MODULE MachineProofs ---------------------------
(***************************************************************************)
(* That the machine stack follows the account of the generator, for every  *)
(* stream whose code a processor gets to in step.                          *)
(***************************************************************************)
EXTENDS Machine, ExecOutputProofs

(* What a stream must not contain: generic instructions, whose zero bytes  *)
(* swallow what follows them; blocks of 16 slots or more, which an 8 bit   *)
(* immediate cannot clean up; a jump that is never taken with an argument, *)
(* which no code takes; and results of a section, which are added to the   *)
(* account of a stack they are not on.                                     *)
NoSlips ==
  /\ MaxDepth < 16
  /\ \A i \in StreamInstrs :
       /\ i.type # "GENERIC"
       /\ i.type = "JMP" /\ i.id = "NVR" => "arg" \notin i.mod
       /\ i.type = "STRUCT" /\ i.id = "SECT_E" => i.retc = 0

(* The slots of a context's code beyond its account.                       *)
Beyond(c, r, k) == r[k] - c[k].curr
SlipOf(type, outer) ==
  CASE type = "SF" -> 1 [] type \in {"CB", "NONLIN"} -> outer [] OTHER -> 0

Tracks(c, r) ==
  /\ r \in Seq(Int) /\ Len(r) = Len(c)
  /\ \A k \in 1 .. Len(c) : Beyond(c, r, k) = SlipOf(c[k].type, Beyond(c, r, k - 1))

-----------------------------------------------------------------------------
(* Account and stack pointer moved together.                               *)

(* The stack pointers of a stack of contexts are numbers.                  *)
LEMMA Pointers ==
  ASSUME NEW c, StackOf(c), NEW r, Tracks(c, r)
  PROVE  /\ Len(c) \in Nat \ {0} /\ c[1].type = "ROOT"
         /\ \A k \in 1 .. Len(c) : r[k] \in Int /\ c[k] \in ContextType /\ c[k].curr \in Nat
         /\ \A k \in 1 .. Len(c) : Beyond(c, r, k) \in Int
<1>1. Len(c) \in Nat \ {0} /\ c[1].type = "ROOT"
  BY DEF StackOf
<1>2. \A k \in 1 .. Len(c) : r[k] \in Int /\ c[k] \in ContextType
  BY ElementOfSeq DEF StackOf, Tracks
<1>3. \A k \in 1 .. Len(c) : c[k].curr \in Nat
  BY <1>2 DEF ContextType
<1> QED BY <1>1, <1>2, <1>3 DEF Beyond

LEMMA ResizedTracks ==
  ASSUME NEW c, StackOf(c), NEW r, Tracks(c, r), NEW n \in Nat, n >= c[Len(c)].beg,
         NEW m \in Int, m - n = Beyond(c, r, Len(c))
  PROVE  /\ Tracks(Resize(c, n), [r EXCEPT ![Len(c)] = m])
         /\ Beyond(Resize(c, n), [r EXCEPT ![Len(c)] = m], Len(c)) = m - n
<1> DEFINE s == [r EXCEPT ![Len(c)] = m]
           d == Resize(c, n)
<1>1. /\ s \in Seq(Int) /\ Len(s) = Len(c)
      /\ \A k \in 1 .. Len(c) : s[k] = IF k = Len(c) THEN m ELSE r[k]
  BY ExceptSeq DEF StackOf, Tracks
<1>2. /\ Len(d) = Len(c)
      /\ \A k \in 1 .. Len(c) : d[k] = IF k = Len(c) THEN [c[k] EXCEPT !.curr = n] ELSE c[k]
  BY Resized
<1>3. Len(c) \in Nat \ {0} /\ c[Len(c)] \in ContextType
  BY Pointers
<1>4. d[Len(c)].curr = n /\ \A k \in 1 .. Len(c) : d[k].type = c[k].type
  <2>1. \A x \in ContextType : [x EXCEPT !.curr = n].curr = n /\ [x EXCEPT !.curr = n].type = x.type
    BY DEF ContextType
  <2>2. \A k \in 1 .. Len(c) : c[k] \in ContextType
    BY Pointers
  <2> HIDE DEF d
  <2>3. \A k \in 1 .. Len(c) : d[k].type = c[k].type
    <3> SUFFICES ASSUME NEW k \in 1 .. Len(c) PROVE d[k].type = c[k].type
      OBVIOUS
    <3>1. CASE k = Len(c)
      <4>1. d[k] = [c[k] EXCEPT !.curr = n]
        BY <1>2, <3>1
      <4> QED BY <2>1, <2>2, <4>1
    <3>2. CASE k # Len(c)
      BY <1>2, <3>2
    <3> QED BY <3>1, <3>2
  <2>4. d[Len(c)] = [c[Len(c)] EXCEPT !.curr = n]
    BY <1>2, <1>3
  <2> QED BY <1>3, <2>1, <2>3, <2>4
<1> HIDE DEF s, d
<1>5. \A k \in 1 .. Len(c) : Beyond(d, s, k) = Beyond(c, r, k)
  <2> SUFFICES ASSUME NEW k \in 1 .. Len(c)
               PROVE  Beyond(d, s, k) = Beyond(c, r, k)
    OBVIOUS
  <2>1. CASE k = Len(c)
    <3>1. s[k] = m /\ d[k].curr = n
      BY <1>1, <1>4, <2>1
    <3>2. Beyond(d, s, k) = m - n
      BY <3>1 DEF Beyond
    <3> QED BY <2>1, <3>2
  <2>2. CASE k # Len(c)
    BY <1>1, <1>2, <2>2 DEF Beyond
  <2> QED BY <2>1, <2>2
<1>6. \A k \in 1 .. Len(c) : Beyond(d, s, k) = SlipOf(d[k].type, Beyond(d, s, k - 1))
  <2> SUFFICES ASSUME NEW k \in 1 .. Len(c)
               PROVE  Beyond(d, s, k) = SlipOf(d[k].type, Beyond(d, s, k - 1))
    OBVIOUS
  <2>1. Beyond(c, r, k) = SlipOf(c[k].type, Beyond(c, r, k - 1))
    BY DEF Tracks
  <2>2. CASE k = 1
    <3>1. c[1].type = "ROOT"
      BY Pointers
    <3> QED BY <1>4, <1>5, <2>1, <2>2, <3>1 DEF SlipOf
  <2>3. CASE k # 1
    <3>1. k - 1 \in 1 .. Len(c)
      BY <1>3, <2>3
    <3> QED BY <1>4, <1>5, <2>1, <3>1
  <2> QED BY <2>2, <2>3
<1>7. Tracks(d, s) /\ Beyond(d, s, Len(c)) = m - n
  BY <1>1, <1>2, <1>3, <1>5, <1>6 DEF Tracks
<1> QED BY <1>7 DEF s, d

LEMMA OpenedTracks ==
  ASSUME NEW c, StackOf(c), NEW r, Tracks(c, r), NEW x \in ContextType, x.type # "ROOT",
         NEW y \in Int, y - x.curr = SlipOf(x.type, Beyond(c, r, Len(c)))
  PROVE  Tracks(Append(c, x), Append(r, y))
<1> DEFINE d == Append(c, x)
           s == Append(r, y)
<1>1. /\ s \in Seq(Int) /\ Len(s) = Len(c) + 1
      /\ \A k \in 1 .. Len(c) : s[k] = r[k]
      /\ s[Len(c) + 1] = y
  BY AppendProperties DEF Tracks
<1>2. /\ Len(d) = Len(c) + 1
      /\ \A k \in 1 .. Len(c) : d[k] = c[k]
      /\ d[Len(c) + 1] = x
  BY AppendProperties DEF StackOf
<1>3. Len(c) \in Nat \ {0} /\ c[1].type = "ROOT"
  BY Pointers
<1> HIDE DEF s, d
<1>4. \A k \in 1 .. Len(c) : Beyond(d, s, k) = Beyond(c, r, k)
  BY <1>1, <1>2 DEF Beyond
<1>5. Beyond(d, s, Len(c) + 1) = SlipOf(x.type, Beyond(d, s, Len(c)))
  BY <1>1, <1>2, <1>3, <1>4 DEF Beyond
<1>6. \A k \in 1 .. Len(d) : Beyond(d, s, k) = SlipOf(d[k].type, Beyond(d, s, k - 1))
  <2> SUFFICES ASSUME NEW k \in 1 .. Len(d)
               PROVE  Beyond(d, s, k) = SlipOf(d[k].type, Beyond(d, s, k - 1))
    OBVIOUS
  <2>1. CASE k = Len(c) + 1
    <3>1. k - 1 = Len(c)
      BY <1>3, <2>1
    <3> QED BY <1>2, <1>5, <2>1, <3>1
  <2>2. CASE k = 1
    <3>1. k \in 1 .. Len(c)
      BY <1>3, <2>2
    <3>2. Beyond(c, r, k) = SlipOf(c[k].type, Beyond(c, r, k - 1))
      BY <3>1 DEF Tracks
    <3> QED BY <1>2, <1>3, <1>4, <2>2, <3>1, <3>2 DEF SlipOf
  <2>3. CASE k # Len(c) + 1 /\ k # 1
    <3>1. k \in 1 .. Len(c) /\ k - 1 \in 1 .. Len(c)
      BY <1>2, <1>3, <2>3
    <3>2. Beyond(c, r, k) = SlipOf(c[k].type, Beyond(c, r, k - 1))
      BY <3>1 DEF Tracks
    <3> QED BY <1>2, <1>4, <3>1, <3>2
  <2> QED BY <2>1, <2>2, <2>3
<1>7. Tracks(d, s)
  BY <1>1, <1>2, <1>6 DEF Tracks
<1> QED BY <1>7 DEF s, d

LEMMA ClosedTracks ==
  ASSUME NEW c, StackOf(c), Len(c) > 1, NEW r, Tracks(c, r)
  PROVE  /\ Tracks(Outer(c), Outer(r))
         /\ Beyond(Outer(c), Outer(r), Len(c) - 1) = Beyond(c, r, Len(c) - 1)
<1> DEFINE d == Outer(c)
           s == Outer(r)
<1>1. /\ Len(d) = Len(c) - 1 /\ Len(c) \in Nat
      /\ \A k \in 1 .. Len(c) - 1 : d[k] = c[k]
  BY Closed DEF StackOf
<1>2. r \in Seq(Int) /\ Len(r) = Len(c) /\ \A k \in 1 .. Len(r) - 1 : r[k] \in Int
  BY ElementOfSeq DEF Tracks
<1>3. /\ s \in Seq(Int) /\ Len(s) = Len(c) - 1
      /\ \A k \in 1 .. Len(c) - 1 : s[k] = r[k]
  BY <1>1, <1>2, SubSeqProperties DEF Outer
<1>4. c[1].type = "ROOT"
  BY Pointers
<1> HIDE DEF d, s
<1>5. \A k \in 1 .. Len(c) - 1 : Beyond(d, s, k) = Beyond(c, r, k)
  BY <1>1, <1>3 DEF Beyond
<1>6. \A k \in 1 .. Len(d) : Beyond(d, s, k) = SlipOf(d[k].type, Beyond(d, s, k - 1))
  <2> SUFFICES ASSUME NEW k \in 1 .. Len(c) - 1
               PROVE  Beyond(d, s, k) = SlipOf(d[k].type, Beyond(d, s, k - 1))
    BY <1>1
  <2>1. Beyond(c, r, k) = SlipOf(c[k].type, Beyond(c, r, k - 1))
    BY <1>1 DEF Tracks
  <2>2. CASE k = 1
    BY <1>1, <1>4, <1>5, <2>1, <2>2 DEF SlipOf
  <2>3. CASE k # 1
    <3>1. k - 1 \in 1 .. Len(c) - 1
      BY <1>1, <2>3
    <3> QED BY <1>1, <1>5, <2>1, <3>1
  <2> QED BY <2>2, <2>3
<1>7. Len(c) - 1 \in 1 .. Len(c) - 1
  BY <1>1
<1>8. Tracks(d, s) /\ Beyond(d, s, Len(c) - 1) = Beyond(c, r, Len(c) - 1)
  BY <1>1, <1>3, <1>5, <1>6, <1>7 DEF Tracks
<1> QED BY <1>8 DEF d, s

-----------------------------------------------------------------------------
(* What one instruction does to both.                                      *)

(* The code of a plain instruction moves the slots its header announces.   *)
LEMMA Balanced ==
  ASSUME NoSlips, NEW i \in StreamInstrs, i \in CoutInstrs, i.type # "TABLE",
         ~ WritesJump(i)
  PROVE  Growth(i) = i.retc - i.argc
<1>1. /\ i.argc \in Nat /\ i.retc \in Nat
      /\ i.type = "JMP" => i.argc = getMemArgArgc(i.mod) /\ i.retc = 0
      /\ i.type \in {"CONST", "LCONST"} => i.argc = 0 /\ i.retc = 1
      /\ i.type = "LOAD" => i.argc = getMemArgArgc(i.mod) /\ i.retc = 1
      /\ i.type = "STORE" => i.argc = getMemArgArgc(i.mod) + 1 /\ i.retc = 0
  BY StreamAssumption, InstrFields DEF IsInstr
<1>2. getMemArgArgc(i.mod) \in {0, 1} /\ ("arg" \notin i.mod => getMemArgArgc(i.mod) = 0)
  BY DEF getMemArgArgc
<1>3. i.type # "GENERIC"
  BY DEF NoSlips
<1>4. CASE i.type \in {"STRUCT", "SPECIAL"}
  BY <1>4 DEF Growth
<1>5. CASE i.type \in {"CONST", "LCONST"}
  <2>1. Growth(i) = 1
    BY <1>5 DEF Growth
  <2> QED BY <1>1, <1>5, <2>1
<1>6. CASE i.type = "LOAD"
  <2>1. Growth(i) = 1 - getMemArgArgc(i.mod)
    BY <1>6 DEF Growth
  <2> QED BY <1>1, <1>6, <2>1
<1>7. CASE i.type = "STORE"
  <2>1. Growth(i) = -1 - getMemArgArgc(i.mod)
    BY <1>7 DEF Growth
  <2>2. i.retc = 0 /\ i.argc = getMemArgArgc(i.mod) + 1
    BY <1>1, <1>7
  <2> HIDE DEF Growth
  <2> QED BY <1>2, <2>1, <2>2
<1>8. CASE i.type = "JMP"
  <2>1. i.id = "NVR"
    BY <1>8 DEF WritesJump
  <2>2. "arg" \notin i.mod
    BY <1>8, <2>1 DEF NoSlips
  <2>3. Growth(i) = 0
    BY <1>8 DEF Growth
  <2> QED BY <1>1, <1>2, <1>8, <2>2, <2>3
<1>9. i.type \in {"GENERIC", "CONST", "LCONST", "LOAD", "STORE", "JMP", "TABLE", "STRUCT",
                  "SPECIAL"}
  BY StreamAssumption DEF IsInstr, InstrTypes
<1> QED BY <1>3, <1>4, <1>5, <1>6, <1>7, <1>8, <1>9

(* Moves of the stack pointer that fit an 8 bit immediate are what they    *)
(* look like, and no block owns more than that.                            *)
LEMMA MovesExact ==
  ASSUME NoSlips, NEW n \in Nat, n <= MaxDepth
  PROVE  addRspMoveSlots(n) = n
BY StreamAssumption DEF NoSlips, addRspMoveSlots

(* One instruction whose code the processor reads in step.                 *)
LEMMA TracksStep ==
  ASSUME NoSlips, Inductive, Tracks(ctx, rsp), open = {},
         NEW i \in StreamInstrs, i \in CoutInstrs, translateInstruction(i), Executes(i),
         ~ GoesAstray(i)
  PROVE  Tracks(ctx', rsp')
<1>1. Accepts(i) /\ Translates(i) /\ WithinDepth'
  BY DEF translateInstruction
<1>2. /\ StackOf(ctx) /\ Depth = Len(ctx) /\ Top = ctx[Depth] /\ Depth \in Nat \ {0}
      /\ Top \in ContextType
  BY StackOfContexts, Contexts DEF Inductive, Depth, Top
<1> DEFINE gap == Beyond(ctx, rsp, Depth)
<1>3. rsp[Depth] \in Int /\ gap \in Int /\ rsp[Depth] = Top.curr + gap
  <2>1. rsp[Depth] \in Int /\ Top.curr \in Nat
    BY <1>2, Pointers
  <2> QED BY <1>2, <2>1 DEF Beyond
<1> HIDE DEF gap
<1>4. /\ Top.beg \in Nat /\ Top.curr \in Nat /\ Own = Top.curr - Top.beg
      /\ i.argc \in Nat /\ i.retc \in Nat /\ i.argc <= Own /\ Own \in Nat
  BY <1>1, InstrFields, Contexts, OwnedArguments DEF Inductive, ContextType, Own
<1>5. Leftover(i) = Own - i.argc /\ addRspMoveSlots(Leftover(i)) = Leftover(i)
  <2>1. Own <= MaxDepth /\ MaxDepth \in Nat
    BY Contexts, StreamAssumption DEF Inductive, WithinDepth, Own, Top
  <2>2. Leftover(i) = Own - i.argc
    BY DEF Leftover
  <2>3. Leftover(i) \in Nat /\ Leftover(i) <= MaxDepth
    BY <1>4, <2>1, <2>2
  <2> QED BY <2>2, <2>3, MovesExact
<1>6. /\ StackOf(ctx') /\ DOMAIN ctx' = 1 .. Len(ctx')
      /\ \A k \in 1 .. Len(ctx') : ctx'[k].curr - ctx'[k].beg <= MaxDepth
  BY <1>1, ContextsKept, LenProperties DEF WithinDepth, StackOf
<1>7. ~ WritesJump(i) /\ ~ BehindZero(i)
  BY DEF GoesAstray, WritesCode, ReadsAsWritten, BehindZero
<1>8. runPlain(i) \/ runBegin(i) \/ runSect(i) \/ runEnd(i)
  BY DEF Executes
<1>9. i.type = "STRUCT" => i.id \in {"NULL"} \cup StructBegins \cup StructEnds
  BY InstrFields
<1>10. CASE PlainStep(i) /\ i.type # "TABLE"
  <2> DEFINE n == Top.curr - i.argc + i.retc
  <2>1. n \in Nat /\ n >= Top.beg
    BY <1>4
  <2>2. ctx' = Resize(ctx, n)
    BY <1>2, <1>10 DEF PlainStep, Plain, Account, Resize, Top
  <2>3. runPlain(i)
    BY <1>8, <1>10 DEF PlainStep, runBegin, runSect, runEnd, StructBegins
  <2>4. Growth(i) = i.retc - i.argc
    BY <1>7, <1>10, Balanced
  <2>5. rsp' = [rsp EXCEPT ![Depth] = @ + (i.retc - i.argc) - 0]
    BY <1>7, <2>3, <2>4 DEF runPlain
  <2>6. rsp[Depth] + (i.retc - i.argc) - 0 = n + gap
    <3>1. \A c, g, x, y \in Int : c + g + (y - x) - 0 = c - x + y + g
      OBVIOUS
    <3> QED BY <1>3, <1>4, <3>1
  <2> HIDE DEF n
  <2>7. rsp' = [rsp EXCEPT ![Depth] = n + gap]
    BY <2>5, <2>6
  <2>8. n + gap \in Int /\ (n + gap) - n = gap
    BY <1>3, <2>1
  <2> QED BY <1>2, <2>1, <2>2, <2>7, <2>8, ResizedTracks DEF gap
<1>11. CASE TableStep(i)
  <2>1. i.type = "TABLE" /\ i.id # "STACK" /\ UNCHANGED ctx
    BY <1>11 DEF TableStep, tableSimple, tableHere, tablePre, tableAddSect, blkVars
  <2>2. runPlain(i)
    BY <1>8, <2>1 DEF runBegin, runSect, runEnd
  <2>3. Growth(i) = 0
    BY <2>1 DEF Growth
  <2>4. rsp' = [rsp EXCEPT ![Depth] = @ + 0 - 0]
    BY <1>7, <2>2, <2>3 DEF runPlain
  <2>5. rsp[Depth] + 0 - 0 = rsp[Depth]
    BY <1>3
  <2>6. rsp' = rsp
    BY <2>4, <2>5 DEF Tracks
  <2> QED BY <2>1, <2>6
<1>12. CASE tableStack(i)
  <2> DEFINE n == Top.curr + i.num
  <2>1. i.num \in Nat
    BY <1>12, InstrFields DEF tableStack
  <2>2. n \in Nat /\ n >= Top.beg /\ n - Top.beg >= i.num
    <3>1. Top.beg <= Top.curr
      BY <1>4
    <3> QED BY <1>4, <2>1, <3>1
  <2>3. ctx' = Resize(ctx, n)
    BY <1>2, <1>12 DEF tableStack, Resize, Top
  <2>4. addRspMoveSlots(i.num) = i.num
    <3> HIDE DEF n
    <3>1. Len(ctx') = Depth /\ ctx'[Depth] = [Top EXCEPT !.curr = n]
      BY <1>2, <2>2, <2>3, Resized
    <3>2. ctx'[Depth].curr - ctx'[Depth].beg = n - Top.beg
      BY <1>2, <3>1 DEF ContextType
    <3>3. n - Top.beg <= MaxDepth
      <4>1. Depth \in 1 .. Len(ctx')
        BY <1>2, <3>1
      <4> QED BY <1>6, <3>2, <4>1
    <3>4. i.num <= MaxDepth
      BY <1>4, <2>1, <2>2, <3>3, StreamAssumption
    <3> QED BY <2>1, <3>4, MovesExact
  <2>5. Growth(i) = i.num
    BY <1>12, <2>4 DEF tableStack, Growth
  <2>6. rsp' = [rsp EXCEPT ![Depth] = @ + i.num - 0]
    BY <1>7, <1>8, <1>12, <2>5 DEF tableStack, runPlain, runBegin, runSect, runEnd
  <2>7. rsp[Depth] + i.num - 0 = n + gap
    BY <1>3, <1>4, <2>1
  <2> HIDE DEF n
  <2>8. rsp' = [rsp EXCEPT ![Depth] = n + gap]
    BY <2>6, <2>7
  <2>9. n + gap \in Int /\ (n + gap) - n = gap
    BY <1>3, <2>2
  <2> QED BY <1>2, <2>2, <2>3, <2>8, <2>9, ResizedTracks DEF gap
<1>13. CASE beginBlock(i)
  <2> DEFINE n == Top.curr - i.argc
             x == Context(ContextBegunBy[i.id], Here, FirstSlot(i), FirstSlot(i) + i.retc)
             y == (IF i.id = "ADDSF" THEN 1 ELSE n + gap) + i.retc
             c == Resize(ctx, n)
             r == [rsp EXCEPT ![Depth] = n + gap]
  <2>1. n \in Nat /\ n >= Top.beg
    BY <1>4
  <2>2. ctx' = Append(c, x)
    BY <1>2, <1>13 DEF beginBlock, Resize, Top
  <2>3. FirstSlot(i) = IF i.id = "ADDSF" THEN 0 ELSE n
    BY DEF FirstSlot
  <2>4. i.id \in {"ADDSF", "NCB_B", "RCB_B", "NONLIN_B"} /\ i.type = "STRUCT"
    BY <1>9, <1>13 DEF beginBlock, StructBegins
  <2>5. runBegin(i)
    BY <1>8, <2>4 DEF runPlain, runSect, runEnd
  <2>6. rsp[Depth] - i.argc = n + gap
    BY <1>3, <1>4
  <2>7. rsp' = Append(r, y)
    <3>1. rsp' = Append([rsp EXCEPT ![Depth] = rsp[Depth] - i.argc],
                        (IF i.id = "ADDSF" THEN 1 ELSE rsp[Depth] - i.argc) + i.retc)
      BY <2>5 DEF runBegin, EnterSlots
    <3> HIDE DEF n
    <3> QED BY <2>6, <3>1
  <2>8. /\ x \in ContextType /\ x.type # "ROOT" /\ x.curr = FirstSlot(i) + i.retc
        /\ i.id = "ADDSF" => x.type = "SF"
        /\ i.id # "ADDSF" => x.type \in {"CB", "NONLIN"}
    <3>1. /\ ContextBegunBy[i.id] \in ContextTypes \ {"ROOT"}
          /\ i.id = "ADDSF" => ContextBegunBy[i.id] = "SF"
          /\ i.id # "ADDSF" => ContextBegunBy[i.id] \in {"CB", "NONLIN"}
      BY <2>4 DEF ContextBegunBy, ContextTypes
    <3>2. Here \in Nat /\ FirstSlot(i) \in Nat
      BY <2>1, <2>3, Contexts DEF Inductive
    <3> QED BY <1>4, <3>1, <3>2 DEF Context, ContextType
  <2> HIDE DEF n, x
  <2>9. (n + gap) \in Int /\ (n + gap) - n = gap
    BY <1>3, <2>1
  <2>10. StackOf(c) /\ Len(c) = Len(ctx) /\ Tracks(c, r) /\ Beyond(c, r, Len(c)) = gap
    BY <1>2, <2>1, <2>9, Resized, ResizedTracks DEF gap
  <2> HIDE DEF c, r
  <2>11. y \in Int /\ y - x.curr = SlipOf(x.type, gap)
    <3>1. CASE i.id = "ADDSF"
      <4>1. y = 1 + i.retc /\ x.curr = i.retc
        BY <1>4, <2>3, <2>8, <3>1
      <4>2. y \in Int /\ y - x.curr = 1
        <5> HIDE DEF y
        <5> QED BY <1>4, <4>1
      <4>3. SlipOf(x.type, gap) = 1
        BY <2>8, <3>1 DEF SlipOf
      <4> QED BY <4>2, <4>3
    <3>2. CASE i.id # "ADDSF"
      <4>1. y = n + gap + i.retc /\ x.curr = n + i.retc
        BY <2>3, <2>8, <3>2
      <4>2. y \in Int /\ y - x.curr = gap
        <5> HIDE DEF y
        <5> QED BY <1>3, <1>4, <2>1, <4>1
      <4>3. SlipOf(x.type, gap) = gap
        BY <2>8, <3>2 DEF SlipOf
      <4> QED BY <4>2, <4>3
    <3> QED BY <3>1, <3>2
  <2> HIDE DEF y
  <2> QED BY <2>2, <2>7, <2>8, <2>10, <2>11, OpenedTracks
<1>14. CASE beginSect(i)
  <2>1. PICK found \in execOutFindSect(i.sect) : ctx' = Append(ctx, Context("SECT", found.sect, 0, 0))
    BY <1>14 DEF beginSect
  <2> DEFINE x == Context("SECT", found.sect, 0, 0)
  <2>2. found.sect \in Nat
    <3>1. found.sects \in Seq(SectionType) /\ found.sect \in DOMAIN found.sects
      BY FoundSection DEF Inductive
    <3> QED BY <3>1, LenProperties
  <2>3. x \in ContextType /\ x.curr = 0 /\ x.type = "SECT"
    BY <2>2 DEF Context, ContextType, ContextTypes
  <2>4. ctx' = Append(ctx, x) /\ rsp' = Append(rsp, 0)
    BY <1>8, <1>14, <2>1 DEF beginSect, runPlain, runBegin, runSect, runEnd, StructEnds
  <2> HIDE DEF x
  <2>5. 0 - x.curr = SlipOf(x.type, Beyond(ctx, rsp, Len(ctx)))
    BY <2>3 DEF SlipOf
  <2> QED BY <1>2, <2>3, <2>4, <2>5, OpenedTracks
<1>15. CASE endBlock(i) \/ endSect(i)
  <2> DEFINE n == ctx[Depth - 1].curr + i.retc
             c == Outer(ctx)
             r == Outer(rsp)
             gap0 == Beyond(ctx, rsp, Depth - 1)
  <2>1. closeBlock(i) /\ i.type = "STRUCT" /\ i.id \in StructEnds
    BY <1>15 DEF endBlock, endSect, StructEnds
  <2>2. Depth > 1 /\ Top.type = ContextEndedBy[i.id]
    BY <1>1, <2>1, EndsInside
  <2>3. /\ StackOf(c) /\ Len(c) = Depth - 1 /\ c[Depth - 1] = ctx[Depth - 1]
        /\ Tracks(c, r) /\ Beyond(c, r, Depth - 1) = gap0
    BY <1>2, <2>2, Closed, ClosedTracks
  <2>4. ctx' = Resize(c, n)
    <3>1. ctx' = [Outer(ctx) EXCEPT ![Len(ctx) - 1].curr = @ + i.retc]
      BY <1>2, <2>1 DEF closeBlock
    <3> HIDE DEF n, c
    <3>2. ctx' = Resize(Outer(ctx), ctx[Len(ctx) - 1].curr + i.retc)
      BY <1>2, <1>4, <2>2, <3>1, Left
    <3> QED BY <1>2, <3>2 DEF n, c
  <2> DEFINE beg == ctx[Depth - 1].beg
             curr == ctx[Depth - 1].curr
  <2>5. /\ beg \in Nat /\ curr \in Nat /\ beg <= curr /\ n = curr + i.retc
        /\ gap0 \in Int /\ r[Depth - 1] = curr + gap0
    <3>1. ctx[Depth - 1] \in ContextType /\ ctx[Depth - 1].beg <= ctx[Depth - 1].curr
      BY <1>2, <2>2, Contexts DEF Inductive
    <3>2. Depth - 1 \in 1 .. Len(c) /\ r[Depth - 1] \in Int
      BY <1>2, <2>2, <2>3, Pointers
    <3>3. gap0 = r[Depth - 1] - curr
      <4>1. Beyond(c, r, Depth - 1) = r[Depth - 1] - c[Depth - 1].curr
        BY DEF Beyond
      <4> HIDE DEF c, r
      <4> QED BY <2>3, <4>1
    <3> HIDE DEF gap0, r
    <3> QED BY <3>1, <3>2, <3>3 DEF ContextType
  <2>6. runEnd(i)
    BY <1>8, <2>1 DEF runPlain, runBegin, runSect, StructBegins, StructEnds
  <2>7. gap = SlipOf(Top.type, gap0)
    BY <1>2 DEF Tracks, gap
  <2> HIDE DEF beg, curr, gap0
  <2>8. n \in Nat /\ n >= beg
    BY <1>4, <2>5
  <2>9. ASSUME i.id \in {"CB_E", "NONLIN_E"} PROVE rsp' = [r EXCEPT ![Depth - 1] = n + gap0]
    <3>1. Top.type \in {"CB", "NONLIN"}
      BY <2>2, <2>9 DEF ContextEndedBy
    <3>2. Top.beg = curr
      BY <1>2, <2>2, <3>1 DEF StackOf, curr
    <3>3. gap = gap0
      BY <2>7, <3>1 DEF SlipOf
    <3>4. rsp[Depth] - i.argc - Leftover(i) + i.retc = n + gap0
      <4>1. \A hi, lo, a, b, g \in Int : (hi + g) - a - (hi - lo - a) + b = lo + b + g
        OBVIOUS
      <4> HIDE DEF n
      <4> QED BY <1>3, <1>4, <1>5, <2>5, <3>2, <3>3, <4>1
    <3>5. rsp' = [r EXCEPT ![Depth - 1] = rsp[Depth] - i.argc - Leftover(i) + i.retc]
      <4> HIDE DEF n, c
      <4> QED BY <1>5, <2>6, <2>9 DEF runEnd
    <3> QED BY <3>4, <3>5
  <2>10. ASSUME i.id = "RMSF" PROVE rsp' = [r EXCEPT ![Depth - 1] = n + gap0]
    <3>1. rsp' = [r EXCEPT ![Depth - 1] = r[Depth - 1] + i.retc]
      BY <2>6, <2>10 DEF runEnd
    <3> HIDE DEF r
    <3>2. r[Depth - 1] + i.retc = n + gap0
      BY <1>4, <2>5
    <3> HIDE DEF n
    <3> QED BY <3>1, <3>2
  <2>11. ASSUME i.id = "SECT_E" PROVE rsp' = [r EXCEPT ![Depth - 1] = n + gap0]
    <3>1. rsp' = r /\ i.retc = 0
      BY <2>1, <2>6, <2>11 DEF runEnd, NoSlips
    <3>2. n + gap0 = r[Depth - 1]
      <4> HIDE DEF r
      <4> QED BY <2>5, <3>1
    <3>3. [r EXCEPT ![Depth - 1] = r[Depth - 1]] = r
      <4>1. r \in Seq(Int)
        BY <2>3 DEF Tracks
      <4> HIDE DEF r
      <4> QED BY <4>1
    <3> HIDE DEF r, n
    <3> QED BY <3>1, <3>2, <3>3
  <2>12. rsp' = [r EXCEPT ![Depth - 1] = n + gap0]
    BY <2>1, <2>9, <2>10, <2>11 DEF StructEnds
  <2> HIDE DEF n, c, r
  <2>13. n >= c[Len(c)].beg /\ Len(c) = Depth - 1
    BY <2>3, <2>8 DEF beg
  <2>14. n + gap0 \in Int /\ (n + gap0) - n = gap0
    BY <2>5, <2>8
  <2> QED BY <2>3, <2>4, <2>8, <2>12, <2>13, <2>14, ResizedTracks
<1>16. i.type = "TABLE" => TableStep(i) \/ tableStack(i)
  BY <1>1
  DEF Translates, TableStep, translateGenericInstr, translateConstInstr, translateSymConstInstr,
      translateLoadInstr, translateStoreInstr, translateNeverJump, translateNearJump,
      translateIndirectJump, WritesJump, translateCall, translateRet, translateRetCB,
      ignored, beginBlock, beginSect, endBlock, endSect
<1> QED BY <1>1, <1>10, <1>11, <1>12, <1>13, <1>14, <1>15, <1>16, Shapes

-----------------------------------------------------------------------------
(* No section's code ends in a zero byte, and as long as all of it is read *)
(* as it was written, the stack pointers follow the account.               *)
Followed == open = {} /\ (astray = {} => Tracks(ctx, rsp))

LEMMA FollowedStep ==
  ASSUME NoSlips, Inductive, Followed, [MachineNext]_<<vars, machineVars>>
  PROVE  Followed'
<1>1. Offered \subseteq StreamInstrs /\ StreamInstrs \subseteq CoutInstrs
  BY OfferedInstrs, StreamEmitted DEF Inductive, TypeOK
<1>2. ASSUME NEW i \in Offered, translateInstruction(i), Executes(i)
      PROVE  Followed'
  <2>1. i \in StreamInstrs /\ i \in CoutInstrs /\ i.type # "GENERIC"
    BY <1>1 DEF NoSlips
  <2>2. open' = {}
    BY <1>2, <2>1 DEF Executes, EndsInZero, Followed
  <2>3. ASSUME astray' = {} PROVE Tracks(ctx', rsp')
    <3>1. astray = {} /\ ~ GoesAstray(i)
      BY <1>2, <2>3 DEF Executes
    <3> QED BY <1>2, <2>1, <3>1, TracksStep DEF Followed
  <2> QED BY <2>2, <2>3 DEF Followed
<1>3. endOfStream \/ UNCHANGED vars => UNCHANGED ctx
  BY DEF endOfStream, vars, outVars, blkVars
<1>4. UNCHANGED <<ctx, machineVars>> => Followed'
  BY DEF Followed, machineVars
<1> QED BY <1>2, <1>3, <1>4 DEF MachineNext

(* For every stream without these slips, as long as its code is read as it *)
(* was written, the argument counts of the headers, the registers of calls *)
(* and blocks, the frames and the clean-up at block ends agree on the      *)
(* depth of the stack, in every open block.                                *)
THEOREM MachineStackHolds ==
  ASSUME NoSlips
  PROVE  MachineSpec => []MachineStackTracksAccount
<1>1. MachineInit => Init /\ Followed
  <2> SUFFICES ASSUME MachineInit PROVE Init /\ Tracks(ctx, rsp) /\ open = {}
    BY DEF Followed
  <2>1. Init /\ rsp = <<0>> /\ open = {} /\ ctx = <<Context("ROOT", NoSect, 0, 0)>>
    BY DEF MachineInit, Init
  <2>2. /\ rsp \in Seq(Int) /\ Len(rsp) = 1 /\ rsp[1] = 0
        /\ Len(ctx) = 1 /\ ctx[1].type = "ROOT" /\ ctx[1].curr = 0
    BY <2>1 DEF Context
  <2>3. Beyond(ctx, rsp, 1) = 0 /\ SlipOf(ctx[1].type, Beyond(ctx, rsp, 0)) = 0
    BY <2>2 DEF Beyond, SlipOf
  <2> QED BY <2>1, <2>2, <2>3 DEF Tracks
<1>2. [MachineNext]_<<vars, machineVars>> => [Next]_vars
  BY DEF MachineNext, Next
<1>3. Inductive /\ Followed => MachineStackTracksAccount
  <2> SUFFICES ASSUME Inductive, Followed, astray = {}, NEW k \in DOMAIN ctx
               PROVE  Slip(k) = CASE ctx[k].type = "SF" -> 1
                                  [] ctx[k].type \in {"CB", "NONLIN"} -> Slip(k - 1)
                                  [] OTHER -> 0
    BY DEF MachineStackTracksAccount
  <2>1. k \in 1 .. Len(ctx) /\ Tracks(ctx, rsp)
    BY Contexts DEF Inductive, Followed, Depth
  <2>2. Beyond(ctx, rsp, k) = SlipOf(ctx[k].type, Beyond(ctx, rsp, k - 1))
    BY <2>1 DEF Tracks
  <2>3. Slip(k) = SlipOf(ctx[k].type, Slip(k - 1))
    BY <2>2 DEF Beyond, Slip
  <2> QED BY <2>3 DEF SlipOf
<1> QED BY <1>1, <1>2, <1>3, FollowedStep, InductiveHolds, PTL DEF MachineSpec, Spec
=============================================================================
