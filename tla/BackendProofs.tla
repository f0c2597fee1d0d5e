--------------------------- MODULE BackendProofs ---------------------------
(***************************************************************************)
(* The names of the back end nest in every compilation of every program:   *)
(* however blocks, branches, loops and functions contain each other, and   *)
(* whatever errors are reported in between, a level of names is open       *)
(* exactly as long as the call of forcedCodeBlock that opened it.          *)
(***************************************************************************)
EXTENDS Compiler, BasicLemmas, FiniteSetTheorems

(* Nodes holds the nodes of the programs: the parts of a node are nodes    *)
(* again, and no name in a program is the one markers have in the table.   *)
TreesOf(Nodes) ==
  /\ Programs \subseteq Nodes /\ NoNode \in Nodes
  /\ \A n \in Nodes : n.type # "NONE" => n.left \in Nodes /\ n.right \in Nodes
  /\ \A n \in Nodes : n.type \notin {"NONE", "OP"} => n.data # "!base!"

-----------------------------------------------------------------------------
(* The call stack.  Only beginCodeBlock and endCodeBlock change which      *)
(* blocks are open: a frame for the end of a block is counted at its place *)
(* from the bottom, where calls above it leave it.                         *)

Sequence(s) == \E S : s \in Seq(S)

IsFrame(f, Nodes) ==
  /\ {"fn", "node"} \subseteq DOMAIN f
  /\ f.node \in Nodes
  /\ f.fn = "branch" => f.node.type # "NONE"
PlainCalls(s, Nodes) ==
  /\ Sequence(s)
  /\ \A k \in 1 .. Len(s) : IsFrame(s[k], Nodes) /\ s[k].fn # "endCodeBlock"
KnownFrames(s, Nodes) == Sequence(s) /\ \A k \in 1 .. Len(s) : IsFrame(s[k], Nodes)

Ends(s) == {d \in 1 .. Len(s) : s[Len(s) + 1 - d].fn = "endCodeBlock"}

LEMMA NoCalls ==
  ASSUME NEW Nodes PROVE PlainCalls(<<>>, Nodes)
BY DEF PlainCalls, Sequence

LEMMA OneCall ==
  ASSUME NEW Nodes, NEW f, IsFrame(f, Nodes), f.fn # "endCodeBlock"
  PROVE  PlainCalls(<<f>>, Nodes)
<1>1. <<f>> \in Seq({f}) /\ Len(<<f>>) = 1 /\ <<f>>[1] = f
  OBVIOUS
<1>2. \A k \in 1 .. Len(<<f>>) : <<f>>[k] = f
  BY <1>1
<1>3. Sequence(<<f>>)
  BY <1>1 DEF Sequence
<1> QED BY <1>2, <1>3 DEF PlainCalls

LEMMA Concatenated ==
  ASSUME NEW s, NEW t, Sequence(s), Sequence(t)
  PROVE  /\ Sequence(s \o t) /\ Len(s) \in Nat /\ Len(t) \in Nat
         /\ Len(s \o t) = Len(s) + Len(t)
         /\ \A k \in 1 .. Len(s) + Len(t) :
              (s \o t)[k] = IF k <= Len(s) THEN s[k] ELSE t[k - Len(s)]
<1>1. PICK S : s \in Seq(S)
  BY DEF Sequence
<1>2. PICK T : t \in Seq(T)
  BY DEF Sequence
<1>3. s \in Seq(S \cup T) /\ t \in Seq(S \cup T)
  BY <1>1, <1>2, SeqMonotonic
<1>4. s \o t \in Seq(S \cup T)
  BY <1>3
<1> QED BY <1>3, <1>4, ConcatProperties DEF Sequence

LEMMA CallsJoined ==
  ASSUME NEW Nodes, NEW s, NEW t, PlainCalls(s, Nodes), PlainCalls(t, Nodes)
  PROVE  PlainCalls(s \o t, Nodes)
<1>1. Sequence(s) /\ Sequence(t)
  BY DEF PlainCalls
<1> SUFFICES ASSUME NEW k \in 1 .. Len(s) + Len(t)
             PROVE  IsFrame((s \o t)[k], Nodes) /\ (s \o t)[k].fn # "endCodeBlock"
  BY <1>1, Concatenated DEF PlainCalls
<1>2. CASE k <= Len(s)
  BY <1>1, <1>2, Concatenated DEF PlainCalls
<1>3. CASE k > Len(s)
  <2>1. k - Len(s) \in 1 .. Len(t) /\ (s \o t)[k] = t[k - Len(s)]
    BY <1>1, <1>3, Concatenated
  <2> QED BY <2>1 DEF PlainCalls
<1> QED BY <1>1, <1>2, <1>3, Concatenated

LEMMA TwoCalls ==
  ASSUME NEW Nodes, NEW f, NEW g, IsFrame(f, Nodes), f.fn # "endCodeBlock",
         IsFrame(g, Nodes), g.fn # "endCodeBlock"
  PROVE  PlainCalls(<<f, g>>, Nodes)
<1>1. <<f, g>> \in Seq({f, g}) /\ Len(<<f, g>>) = 2 /\ <<f, g>>[1] = f /\ <<f, g>>[2] = g
  OBVIOUS
<1>2. \A k \in 1 .. Len(<<f, g>>) : <<f, g>>[k] = f \/ <<f, g>>[k] = g
  BY <1>1
<1>3. Sequence(<<f, g>>)
  BY <1>1 DEF Sequence
<1> QED BY <1>2, <1>3 DEF PlainCalls

(* The calls below the first, with their locals changed.                   *)
SameCalls(calls, others, Nodes) ==
  /\ KnownFrames(calls, Nodes) /\ Len(calls) = Len(others)
  /\ \A k \in 1 .. Len(others) : calls[k].fn = others[k].fn

LEMMA TailFrames ==
  ASSUME NEW Nodes, NEW s, KnownFrames(s, Nodes), s # <<>>
  PROVE  /\ SameCalls(Tail(s), Tail(s), Nodes)
         /\ Len(s) \in Nat \ {0} /\ Len(Tail(s)) = Len(s) - 1
         /\ \A k \in 1 .. Len(s) - 1 : Tail(s)[k] = s[k + 1]
         /\ Head(s) = s[1] /\ IsFrame(Head(s), Nodes)
<1>1. PICK S : s \in Seq(S)
  BY DEF KnownFrames, Sequence
<1>2. /\ Tail(s) \in Seq(S) /\ Len(Tail(s)) = Len(s) - 1 /\ Len(s) \in Nat \ {0}
      /\ \A k \in 1 .. Len(s) - 1 : Tail(s)[k] = s[k + 1]
      /\ Head(s) = s[1]
  BY <1>1
<1>3. \A k \in 1 .. Len(s) : IsFrame(s[k], Nodes)
  BY DEF KnownFrames
<1>4. \A k \in 1 .. Len(s) - 1 : k + 1 \in 1 .. Len(s) /\ IsFrame(Tail(s)[k], Nodes)
  BY <1>2, <1>3
<1>5. Sequence(Tail(s))
  BY <1>2 DEF Sequence
<1>6. IsFrame(Head(s), Nodes)
  BY <1>2, <1>3
<1>7. \A k \in 1 .. Len(Tail(s)) : IsFrame(Tail(s)[k], Nodes)
  BY <1>2, <1>4
<1> QED BY <1>2, <1>5, <1>6, <1>7 DEF SameCalls, KnownFrames

(* The open blocks of a stack of calls, and of frames put in front of the  *)
(* calls below its first.                                                  *)
LEMMA EndsBelow ==
  ASSUME NEW Nodes, NEW old, KnownFrames(old, Nodes), old # <<>>,
         NEW frames, KnownFrames(frames, Nodes),
         NEW calls, SameCalls(calls, Tail(old), Nodes)
  PROVE  LET new == frames \o calls
         IN  /\ KnownFrames(new, Nodes)
             /\ Len(old) \in Nat \ {0} /\ Len(frames) \in Nat
             /\ Ends(old) \subseteq 1 .. Len(old)
             /\ Len(old) \in Ends(old) <=> Head(old).fn = "endCodeBlock"
             /\ Ends(new) \subseteq 1 .. Len(frames) + Len(old) - 1
             /\ \A d \in 1 .. Len(old) - 1 : d \in Ends(new) <=> d \in Ends(old)
             /\ \A k \in 1 .. Len(frames) :
                  Len(frames) + Len(old) - k \in Ends(new) <=> frames[k].fn = "endCodeBlock"
<1> DEFINE new == frames \o calls  n == Len(frames)  m == Len(old) - 1
<1>1. /\ Len(old) \in Nat \ {0} /\ Len(calls) = m /\ Head(old) = old[1]
      /\ \A k \in 1 .. m : calls[k].fn = old[k + 1].fn
  BY TailFrames DEF SameCalls
<1>2. /\ Sequence(new) /\ n \in Nat /\ Len(new) = n + m
      /\ \A k \in 1 .. n + m : new[k] = IF k <= n THEN frames[k] ELSE calls[k - n]
  BY <1>1, Concatenated DEF SameCalls, KnownFrames
<1>3. \A k \in 1 .. n : IsFrame(frames[k], Nodes)
  BY DEF KnownFrames
<1>4. \A k \in 1 .. m : IsFrame(calls[k], Nodes)
  BY <1>1 DEF SameCalls, KnownFrames
<1>5. m \in Nat /\ Len(old) = m + 1
  BY <1>1
<1> HIDE DEF n, m, new
<1>6. \A k \in 1 .. n + m : IsFrame(new[k], Nodes)
  <2> SUFFICES ASSUME NEW k \in 1 .. n + m PROVE IsFrame(new[k], Nodes)
    OBVIOUS
  <2>1. CASE k <= n
    BY <1>2, <1>3, <2>1
  <2>2. CASE k > n
    <3>1. k - n \in 1 .. m /\ new[k] = calls[k - n]
      BY <1>2, <1>5, <2>2
    <3> QED BY <1>4, <3>1
  <2> QED BY <2>1, <2>2, <1>2
<1>7. Ends(new) = {d \in 1 .. n + m : new[n + m + 1 - d].fn = "endCodeBlock"}
  BY <1>2 DEF Ends
<1>8. Ends(old) = {d \in 1 .. m + 1 : old[m + 2 - d].fn = "endCodeBlock"}
  BY <1>5 DEF Ends
<1>9. ASSUME NEW d \in 1 .. m
      PROVE  d \in Ends(new) <=> d \in Ends(old)
  <2>1. n + m + 1 - d \in 1 .. n + m /\ n + m + 1 - d > n /\ m + 1 - d \in 1 .. m
        /\ (n + m + 1 - d) - n = m + 1 - d /\ (m + 1 - d) + 1 = m + 2 - d
    BY <1>2, <1>5
  <2>2. new[n + m + 1 - d] = calls[m + 1 - d]
    <3> DEFINE k == n + m + 1 - d
    <3>1. new[k] = IF k <= n THEN frames[k] ELSE calls[k - n]
      BY <1>2, <2>1
    <3>2. ~ (k <= n) /\ k - n = m + 1 - d
      BY <2>1, <1>2, <1>5
    <3> QED BY <3>1, <3>2
  <2>3. calls[m + 1 - d].fn = old[m + 2 - d].fn
    BY <1>1, <2>1
  <2>4. d \in 1 .. n + m /\ d \in 1 .. m + 1
    BY <1>2, <1>5
  <2> QED BY <1>7, <1>8, <2>2, <2>3, <2>4
<1>10. m + 1 \in Ends(old) <=> old[1].fn = "endCodeBlock"
  BY <1>8, <1>5
<1>11. ASSUME NEW k \in 1 .. n
       PROVE  n + m + 1 - k \in Ends(new) <=> frames[k].fn = "endCodeBlock"
  <2>1. n + m + 1 - k \in 1 .. n + m /\ n + m + 1 - (n + m + 1 - k) = k /\ k \in 1 .. n + m /\ k <= n
    BY <1>2, <1>5
  <2> QED BY <1>2, <1>7, <2>1
<1>12. KnownFrames(new, Nodes)
  BY <1>2, <1>6 DEF KnownFrames
<1>13. Ends(old) \subseteq 1 .. m + 1 /\ Ends(new) \subseteq 1 .. n + m
  BY <1>7, <1>8
<1>14. \A k \in 1 .. n : n + (m + 1) - k = n + m + 1 - k
  BY <1>2, <1>5
<1>15. n + (m + 1) - 1 = n + m /\ (m + 1) - 1 = m
  BY <1>2, <1>5
<1> QED BY <1>1, <1>2, <1>5, <1>9, <1>10, <1>11, <1>12, <1>13, <1>14, <1>15 DEF new, n

(* Calling plain functions leaves the open blocks open.                    *)
LEMMA EndsKept ==
  ASSUME NEW Nodes, NEW old, KnownFrames(old, Nodes), old # <<>>, Head(old).fn # "endCodeBlock",
         NEW frames, PlainCalls(frames, Nodes),
         NEW calls, SameCalls(calls, Tail(old), Nodes)
  PROVE  KnownFrames(frames \o calls, Nodes) /\ Ends(frames \o calls) = Ends(old)
<1>1. KnownFrames(frames, Nodes)
  BY DEF PlainCalls, KnownFrames
<1> DEFINE new == frames \o calls  n == Len(frames)  m == Len(old)
<1>2. /\ KnownFrames(new, Nodes) /\ m \in Nat \ {0} /\ n \in Nat
      /\ Ends(old) \subseteq 1 .. m /\ m \notin Ends(old)
      /\ Ends(new) \subseteq 1 .. n + m - 1
      /\ \A d \in 1 .. m - 1 : d \in Ends(new) <=> d \in Ends(old)
      /\ \A k \in 1 .. n : n + m - k \in Ends(new) <=> frames[k].fn = "endCodeBlock"
  BY <1>1, EndsBelow
<1>3. \A k \in 1 .. n : frames[k].fn # "endCodeBlock"
  BY DEF PlainCalls
<1> HIDE DEF new, n, m
<1>4. ASSUME NEW d \in Ends(new) PROVE d \in Ends(old)
  <2>1. CASE d < m
    BY <1>2, <2>1
  <2>2. CASE d >= m
    <3>1. n + m - d \in 1 .. n /\ n + m - (n + m - d) = d
      BY <1>2, <2>2
    <3> QED BY <1>2, <1>3, <3>1
  <2> QED BY <2>1, <2>2, <1>2
<1>5. ASSUME NEW d \in Ends(old) PROVE d \in Ends(new)
  BY <1>2
<1> QED BY <1>2, <1>4, <1>5 DEF new

(* forcedCodeBlock opens a block, and its rest closes it.                  *)
LEMMA EndsOpened ==
  ASSUME NEW Nodes, NEW old, KnownFrames(old, Nodes), old # <<>>, Head(old).fn # "endCodeBlock",
         NEW f, IsFrame(f, Nodes), f.fn # "endCodeBlock",
         NEW g, IsFrame(g, Nodes), g.fn = "endCodeBlock"
  PROVE  /\ KnownFrames(<<f, g>> \o Tail(old), Nodes)
         /\ Ends(<<f, g>> \o Tail(old)) = Ends(old) \cup {Len(old)}
         /\ Len(old) \notin Ends(old)
<1> DEFINE frames == <<f, g>>  new == frames \o Tail(old)  m == Len(old)
<1>1. frames \in Seq({f, g}) /\ Len(frames) = 2 /\ frames[1] = f /\ frames[2] = g
  OBVIOUS
<1>2. \A k \in 1 .. Len(frames) : frames[k] = f \/ frames[k] = g
  BY <1>1
<1>3. KnownFrames(frames, Nodes)
  <2>1. Sequence(frames)
    BY <1>1 DEF Sequence
  <2> QED BY <1>2, <2>1 DEF KnownFrames
<1>4. SameCalls(Tail(old), Tail(old), Nodes)
  BY TailFrames
<1>5. /\ KnownFrames(new, Nodes) /\ m \in Nat \ {0}
      /\ Ends(old) \subseteq 1 .. m /\ m \notin Ends(old)
      /\ Ends(new) \subseteq 1 .. Len(frames) + m - 1
      /\ \A d \in 1 .. m - 1 : d \in Ends(new) <=> d \in Ends(old)
      /\ \A k \in 1 .. Len(frames) :
           Len(frames) + m - k \in Ends(new) <=> frames[k].fn = "endCodeBlock"
  <2> HIDE DEF frames
  <2> QED BY <1>3, <1>4, EndsBelow
<1> HIDE DEF frames, new, m
<1>6. Ends(new) \subseteq 1 .. m + 1 /\ m + 1 \notin Ends(new) /\ m \in Ends(new)
  <2>1. 2 + m - 1 = m + 1 /\ 2 + m - 2 = m /\ 1 \in 1 .. 2 /\ 2 \in 1 .. 2
    BY <1>5
  <2> QED BY <1>1, <1>5, <2>1
<1>7. \A d \in 1 .. m + 1 : d \in 1 .. m - 1 \/ d = m \/ d = m + 1
  BY <1>5
<1> QED BY <1>5, <1>6, <1>7 DEF new, m, frames

LEMMA EndsClosed ==
  ASSUME NEW Nodes, NEW old, KnownFrames(old, Nodes), old # <<>>, Head(old).fn = "endCodeBlock"
  PROVE  /\ KnownFrames(<<>> \o Tail(old), Nodes)
         /\ Ends(<<>> \o Tail(old)) = Ends(old) \ {Len(old)}
         /\ Len(old) \in Ends(old)
<1> DEFINE new == <<>> \o Tail(old)  m == Len(old)
<1>1. KnownFrames(<<>>, Nodes) /\ Len(<<>>) = 0
  BY DEF KnownFrames, Sequence
<1>2. SameCalls(Tail(old), Tail(old), Nodes)
  BY TailFrames
<1>3. /\ KnownFrames(new, Nodes) /\ m \in Nat \ {0}
      /\ Ends(old) \subseteq 1 .. m /\ m \in Ends(old)
      /\ Ends(new) \subseteq 1 .. 0 + m - 1
      /\ \A d \in 1 .. m - 1 : d \in Ends(new) <=> d \in Ends(old)
  BY <1>1, <1>2, EndsBelow
<1> HIDE DEF new, m
<1>4. 1 .. 0 + m - 1 = 1 .. m - 1 /\ \A d \in 1 .. m : d = m \/ d \in 1 .. m - 1
  BY <1>3
<1>5. m \notin 1 .. m - 1
  BY <1>3
<1> QED BY <1>3, <1>4, <1>5 DEF new, m

-----------------------------------------------------------------------------
(* What an action other than the two of a block does to the stack of calls *)
(* and to the tables.                                                      *)

StackKept(Nodes) ==
  \/ todo' = todo
  \/ /\ todo # <<>> /\ This.fn # "endCodeBlock"
     /\ \E frames, calls :
          /\ PlainCalls(frames, Nodes) /\ SameCalls(calls, Tail(todo), Nodes)
          /\ todo' = frames \o calls

NameAdded ==
  \/ \E name : name # "!base!" /\ programCreateVar(name)
  \/ \E name : programCreateFunc(name)
ArgsNoted ==
  /\ UNCHANGED <<objVars, pos>>
  /\ \E args : objFuncs' = [objFuncs EXCEPT ![Len(objFuncs)].args = args]
NamesKept == UNCHANGED <<objVars, objFuncs>> /\ pos' \in {pos, NextId}

Effect(Nodes) == StackKept(Nodes) /\ (NamesKept \/ NameAdded \/ ArgsNoted)

LEMMA FrameOf ==
  ASSUME NEW Nodes, NEW fn, fn # "branch", NEW node \in Nodes, NEW req
  PROVE  IsFrame(Frame(fn, node, req), Nodes) /\ Frame(fn, node, req).fn = fn
BY DEF IsFrame, Frame

LEMMA WritesOf ==
  ASSUME NEW Nodes, NEW fn, fn # "branch", NEW node \in Nodes, NEW req, NEW wr
  PROVE  IsFrame(Writes(fn, node, req, wr), Nodes) /\ Writes(fn, node, req, wr).fn = fn
BY DEF IsFrame, Frame, Writes

LEMMA LaterOf ==
  ASSUME NEW Nodes, NoNode \in Nodes, NEW instrs
  PROVE  IsFrame(Later(instrs), Nodes) /\ Later(instrs).fn = "emit"
BY DEF IsFrame, Frame, Later

LEMMA CallOfBlock ==
  ASSUME NEW Nodes, NEW node \in Nodes, NEW req
  PROVE  IsFrame(Block(node, req), Nodes) /\ Block(node, req).fn = "compileCodeBlock"
BY FrameOf DEF Block

LEMMA CallsOfOne ==
  ASSUME NEW Nodes, TreesOf(Nodes)
  PROVE  /\ PlainCalls(<<>>, Nodes)
         /\ \A fn, node, req :
              node \in Nodes /\ fn \notin {"branch", "endCodeBlock"} =>
                PlainCalls(<<Frame(fn, node, req)>>, Nodes)
         /\ \A fn, node, req, wr :
              node \in Nodes /\ fn \notin {"branch", "endCodeBlock"} =>
                PlainCalls(<<Writes(fn, node, req, wr)>>, Nodes)
         /\ \A node, req : node \in Nodes => PlainCalls(<<Block(node, req)>>, Nodes)
         /\ \A instrs : PlainCalls(<<Later(instrs)>>, Nodes)
<1>1. NoNode \in Nodes
  BY DEF TreesOf
<1> QED BY <1>1, NoCalls, OneCall, FrameOf, WritesOf, CallOfBlock, LaterOf

LEMMA CallsOfTwo ==
  ASSUME NEW Nodes, TreesOf(Nodes), NEW f, NEW g,
         PlainCalls(<<f>>, Nodes), PlainCalls(<<g>>, Nodes)
  PROVE  PlainCalls(<<f, g>>, Nodes)
<1>1. /\ Len(<<f>>) = 1 /\ <<f>>[1] = f /\ 1 \in 1 .. 1
      /\ Len(<<g>>) = 1 /\ <<g>>[1] = g
  OBVIOUS
<1> QED BY <1>1, TwoCalls DEF PlainCalls

LEMMA RunsKept ==
  ASSUME NEW Nodes, KnownFrames(todo, Nodes), todo # <<>>, This.fn # "endCodeBlock",
         NEW frames, PlainCalls(frames, Nodes), todo' = frames \o Tail(todo)
  PROVE  StackKept(Nodes)
BY TailFrames DEF StackKept

LEMMA AtFrame ==
  ASSUME NEW Nodes, TreesOf(Nodes), KnownFrames(todo, Nodes), todo # <<>>
  PROVE  /\ This = Head(todo) /\ IsFrame(This, Nodes) /\ Node \in Nodes
         /\ Node.type # "NONE" => Node.left \in Nodes /\ Node.right \in Nodes
         /\ Node.type \notin {"NONE", "OP"} => Node.data # "!base!"
<1>1. IsFrame(This, Nodes)
  BY TailFrames DEF This
<1> QED BY <1>1 DEF This, Node, IsFrame, TreesOf

(* An action that leaves the tables and calls something.                   *)
LEMMA GoesKept ==
  ASSUME NEW Nodes, KnownFrames(todo, Nodes), todo # <<>>, This.fn # "endCodeBlock",
         NEW frames, PlainCalls(frames, Nodes), NEW instrs,
         Goes(frames, instrs) \/ Fails(frames, instrs)
  PROVE  Effect(Nodes)
<1>1. todo' = frames \o Tail(todo) /\ UNCHANGED tables
  BY DEF Goes, Fails, Does, Runs
<1> QED BY <1>1, RunsKept DEF Effect, NamesKept, tables

LEMMA DerailsKept ==
  ASSUME NEW Nodes, Derails
  PROVE  Effect(Nodes)
BY DEF Derails, Effect, StackKept, NamesKept, tables

LEMMA StatementEffects ==
  ASSUME NEW Nodes, TreesOf(Nodes), KnownFrames(todo, Nodes),
         compileNothing \/ compileCodeBlock \/ compileStatements \/ emitRest
  PROVE  Effect(Nodes)
<1>1. CASE compileNothing
  <2>1. /\ todo # <<>> /\ This.fn # "endCodeBlock"
        /\ Goes(<<>>, <<>>) \/ Fails(<<>>, <<>>) \/ Derails
    BY <1>1 DEF compileNothing, At
  <2> QED BY <2>1, NoCalls, GoesKept, DerailsKept
<1>2. CASE compileCodeBlock
  <2>1. /\ todo # <<>> /\ This.fn # "endCodeBlock"
        /\ Goes(<<Frame("compileCode", Node, This.req)>>, <<>>)
    BY <1>2 DEF compileCodeBlock, At
  <2>2. PlainCalls(<<Frame("compileCode", Node, This.req)>>, Nodes)
    BY <2>1, AtFrame, CallsOfOne
  <2> QED BY <2>1, <2>2, GoesKept
<1>3. CASE compileStatements
  <2> DEFINE frames == IF This.req > 0 THEN <<Block(Node, This.req)>> ELSE Statements(Node)
  <2>1. /\ todo # <<>> /\ This.fn # "endCodeBlock" /\ Goes(frames, <<>>)
        /\ Node.type # "NONE"
    BY <1>3 DEF compileStatements, At, Is
  <2>2. Node \in Nodes /\ Node.left \in Nodes /\ Node.right \in Nodes
    BY <2>1, AtFrame
  <2>3. PlainCalls(Statements(Node), Nodes)
    BY <2>2, CallsOfOne, CallsOfTwo DEF Statements
  <2>4. PlainCalls(frames, Nodes)
    BY <2>2, <2>3, CallsOfOne
  <2> QED BY <2>1, <2>4, GoesKept
<1>4. CASE emitRest
  <2>1. todo # <<>> /\ This.fn # "endCodeBlock" /\ Goes(<<>>, This.instrs)
    BY <1>4 DEF emitRest, At
  <2> QED BY <2>1, NoCalls, GoesKept
<1> QED BY <1>1, <1>2, <1>3, <1>4

LEMMA ValueEffects ==
  ASSUME NEW Nodes, TreesOf(Nodes), KnownFrames(todo, Nodes),
         compileVarNode \/ compileKVarNode \/ compileConstNode
  PROVE  Effect(Nodes)
<1>1. CASE Derails
  BY <1>1, DerailsKept
<1>2. CASE ~ Derails
  <2>1. /\ todo # <<>> /\ This.fn # "endCodeBlock"
        /\ \E instrs : Goes(<<>>, instrs) \/ Fails(<<>>, instrs)
    BY <1>2 DEF compileVarNode, compileKVarNode, compileConstNode, At, Reached
  <2> QED BY <2>1, NoCalls, GoesKept
<1> QED BY <1>1, <1>2

LEMMA DefinitionOfVariable ==
  ASSUME NEW Nodes, TreesOf(Nodes), KnownFrames(todo, Nodes), compileVarDef
  PROVE  Effect(Nodes)
<1>1. todo # <<>> /\ This.fn # "endCodeBlock"
  BY DEF compileVarDef, At
<1>2. CASE Node.type # "NONE" /\ Goes(<<Frame("compileVarDef", Node.right, 0)>>, <<>>)
  <2>1. PlainCalls(<<Frame("compileVarDef", Node.right, 0)>>, Nodes)
    BY <1>1, <1>2, AtFrame, CallsOfOne
  <2> QED BY <1>1, <1>2, <2>1, GoesKept
<1>3. CASE Goes(<<>>, <<>>)
  BY <1>1, <1>3, NoCalls, GoesKept
<1>4. CASE /\ Node.type # "NONE"
           /\ Goes(<<Frame("compileVarDef", Node.left, 0), Frame("compileVarDef", Node.right, 0)>>,
                   <<>>)
  <2>1. /\ PlainCalls(<<Frame("compileVarDef", Node.left, 0)>>, Nodes)
        /\ PlainCalls(<<Frame("compileVarDef", Node.right, 0)>>, Nodes)
    BY <1>1, <1>4, AtFrame, CallsOfOne
  <2> QED BY <1>1, <1>4, <2>1, CallsOfTwo, GoesKept
<1>5. CASE /\ Node.type \notin {"NONE", "OP"}
           /\ Does(<<>>, <<emitTableStackVar(VarLabel(Node.data), 1)>>)
           /\ programCreateVar(Node.data)
  <2>1. todo' = <<>> \o Tail(todo)
    BY <1>5 DEF Does, Runs
  <2>2. NameAdded
    BY <1>1, <1>5, AtFrame DEF NameAdded
  <2> QED BY <1>1, <2>1, <2>2, NoCalls, RunsKept DEF Effect
<1> QED BY <1>2, <1>3, <1>4, <1>5 DEF compileVarDef, Is

(* Locals of a caller may change, which it is stays.                       *)
LEMMA LocalChanged ==
  ASSUME NEW Nodes, NEW s, KnownFrames(s, Nodes), NEW x, NEW e,
         x \in 1 .. Len(s) => IsFrame(e, Nodes) /\ e.fn = s[x].fn
  PROVE  SameCalls([s EXCEPT ![x] = e], s, Nodes)
<1> DEFINE t == [s EXCEPT ![x] = e]
<1>1. PICK S : s \in Seq(S)
  BY DEF KnownFrames, Sequence
<1>2. /\ Len(s) \in Nat /\ DOMAIN s = 1 .. Len(s) /\ s \in [1 .. Len(s) -> S]
  BY <1>1
<1>3. t \in [1 .. Len(s) -> S \cup {e}]
  BY <1>2
<1>4. t \in Seq(S \cup {e}) /\ Len(t) = Len(s)
  BY <1>2, <1>3, IsASeq
<1>5. \A k \in 1 .. Len(s) : t[k] = IF k = x THEN e ELSE s[k]
  BY <1>2
<1> HIDE DEF t
<1>6. Sequence(t)
  BY <1>4 DEF Sequence
<1> QED BY <1>4, <1>5, <1>6 DEF t, SameCalls, KnownFrames

LEMMA ToldSame ==
  ASSUME NEW Nodes, NEW s, KnownFrames(s, Nodes), NEW cond
  PROVE  SameCalls(Told(s, cond), s, Nodes)
<1> DEFINE x == Min({k \in DOMAIN s : s[k].fn \in {"branch", "loop"}})
           e == [s[x] EXCEPT !.cond = cond]
<1>1. Told(s, cond) = [s EXCEPT ![x] = e]
  BY DEF Told
<1> HIDE DEF x
<1>2. ASSUME x \in 1 .. Len(s) PROVE IsFrame(e, Nodes) /\ e.fn = s[x].fn
  <2>1. IsFrame(s[x], Nodes)
    BY <1>2 DEF KnownFrames
  <2>2. DOMAIN e = DOMAIN s[x] /\ e.fn = s[x].fn /\ e.node = s[x].node
    BY <2>1 DEF IsFrame
  <2> QED BY <2>1, <2>2 DEF IsFrame
<1> HIDE DEF e
<1>3. SameCalls([s EXCEPT ![x] = e], s, Nodes)
  BY <1>2, LocalChanged
<1> QED BY <1>1, <1>3

LEMMA CountedSame ==
  ASSUME NEW Nodes, NEW s, KnownFrames(s, Nodes), NEW fn
  PROVE  SameCalls(Counted(s, fn), s, Nodes)
<1> DEFINE x == Min({k \in DOMAIN s : s[k].fn = fn})
           e == [s[x] EXCEPT !.cnt = @ + 1]
<1>1. Counted(s, fn) = [s EXCEPT ![x] = e]
  BY DEF Counted
<1> HIDE DEF x
<1>2. ASSUME x \in 1 .. Len(s) PROVE IsFrame(e, Nodes) /\ e.fn = s[x].fn
  <2>1. IsFrame(s[x], Nodes)
    BY <1>2 DEF KnownFrames
  <2>2. DOMAIN e = DOMAIN s[x] /\ e.fn = s[x].fn /\ e.node = s[x].node
    BY <2>1 DEF IsFrame
  <2> QED BY <2>1, <2>2 DEF IsFrame
<1> HIDE DEF e
<1>3. SameCalls([s EXCEPT ![x] = e], s, Nodes)
  BY <1>2, LocalChanged
<1> QED BY <1>1, <1>3

(* The rest of a function keeps its node.                                  *)
LEMMA RestOf ==
  ASSUME NEW Nodes, NEW f, IsFrame(f, Nodes), NEW g, DOMAIN g = DOMAIN f,
         g.node = f.node, g.fn # "endCodeBlock",
         g.fn = "branch" => f.node.type # "NONE"
  PROVE  PlainCalls(<<g>>, Nodes)
<1>1. IsFrame(g, Nodes)
  BY DEF IsFrame
<1> QED BY <1>1, OneCall

LEMMA TargetEffects ==
  ASSUME NEW Nodes, TreesOf(Nodes), KnownFrames(todo, Nodes), compileSetDst
  PROVE  Effect(Nodes)
<1>1. todo # <<>> /\ This.fn # "endCodeBlock"
  BY DEF compileSetDst, At
<1>2. CASE Derails \/ \E instrs : Fails(<<>>, instrs)
  BY <1>1, <1>2, NoCalls, GoesKept, DerailsKept
<1>3. CASE \E req1, req2 : Node.type # "NONE" /\
        Goes(<<Writes("compileSetDst", Node.left, req1, This.wr),
               Writes("compileSetDst", Node.left, req2, This.wr)>>, <<Gen("DUP")>>)
  <2>1. PICK req1, req2 : Node.type # "NONE" /\
          Goes(<<Writes("compileSetDst", Node.left, req1, This.wr),
                 Writes("compileSetDst", Node.left, req2, This.wr)>>, <<Gen("DUP")>>)
    BY <1>3
  <2>2. /\ PlainCalls(<<Writes("compileSetDst", Node.left, req1, This.wr)>>, Nodes)
        /\ PlainCalls(<<Writes("compileSetDst", Node.left, req2, This.wr)>>, Nodes)
    BY <1>1, <2>1, AtFrame, CallsOfOne
  <2> QED BY <1>1, <2>1, <2>2, CallsOfTwo, GoesKept
<1>4. CASE Node.type # "NONE" /\
        Goes(<<Block(Node.right, 1), [This EXCEPT !.fn = "derefTarget"]>>, <<>>)
  <2>1. IsFrame(This, Nodes) /\ Node.right \in Nodes
    BY <1>1, <1>4, AtFrame
  <2> DEFINE rest == [This EXCEPT !.fn = "derefTarget"]
  <2>2. DOMAIN rest = DOMAIN This /\ rest.node = This.node /\ rest.fn = "derefTarget"
    BY <2>1 DEF IsFrame
  <2>3. PlainCalls(<<rest>>, Nodes)
    <3> HIDE DEF rest
    <3> QED BY <2>1, <2>2, RestOf
  <2>4. PlainCalls(<<Block(Node.right, 1)>>, Nodes)
    BY <2>1, CallsOfOne
  <2> HIDE DEF rest
  <2>5. PlainCalls(<<Block(Node.right, 1), rest>>, Nodes)
    BY <2>3, <2>4, CallsOfTwo
  <2> QED BY <1>1, <1>4, <2>5, GoesKept DEF rest
<1> QED BY <1>2, <1>3, <1>4 DEF compileSetDst, Is

LEMMA AssignmentEffects ==
  ASSUME NEW Nodes, TreesOf(Nodes), KnownFrames(todo, Nodes), compileAssignment
  PROVE  Effect(Nodes)
<1> DEFINE added == IF Is(Node, "EQARTL") THEN <<Block(Node.left, 1), Later(<<Gen("ADD")>>)>>
                    ELSE <<>>
           target == <<Writes("compileSetDst", Node.left, This.req, 1)>>
           frames == <<Block(Node.right, 1)>> \o added \o target
<1>1. /\ todo # <<>> /\ This.fn # "endCodeBlock" /\ Node.type # "NONE"
      /\ Goes(frames, <<>>)
  BY DEF compileAssignment, At, Is
<1>2. Node.left \in Nodes /\ Node.right \in Nodes
  BY <1>1, AtFrame
<1>3. PlainCalls(added, Nodes)
  <2>1. /\ PlainCalls(<<Block(Node.left, 1)>>, Nodes)
        /\ PlainCalls(<<Later(<<Gen("ADD")>>)>>, Nodes)
    BY <1>2, CallsOfOne
  <2> QED BY <2>1, CallsOfTwo, NoCalls
<1>4. PlainCalls(target, Nodes) /\ PlainCalls(<<Block(Node.right, 1)>>, Nodes)
  BY <1>2, CallsOfOne
<1> HIDE DEF added, target
<1>5. PlainCalls(frames, Nodes)
  BY <1>3, <1>4, CallsJoined
<1> QED BY <1>1, <1>5, GoesKept

LEMMA OperandsPlain ==
  ASSUME NEW Nodes, TreesOf(Nodes), NEW node \in Nodes, node.type # "NONE", NEW instrs
  PROVE  PlainCalls(GenericOp(node, instrs), Nodes)
<1>1. node.left \in Nodes /\ node.right \in Nodes
  BY DEF TreesOf
<1>2. /\ PlainCalls(<<Block(node.left, 1)>>, Nodes) /\ PlainCalls(<<Block(node.right, 1)>>, Nodes)
      /\ PlainCalls(<<Later(instrs)>>, Nodes) /\ PlainCalls(<<>>, Nodes)
  BY <1>1, CallsOfOne
<1>3. PlainCalls(IF IsNone(node.left) THEN <<>> ELSE <<Block(node.left, 1)>>, Nodes)
  BY <1>2
<1>4. PlainCalls(Operands(node), Nodes)
  BY <1>2, <1>3, CallsJoined DEF Operands
<1>5. PlainCalls(IF LacksOperand(node) THEN <<>> ELSE Operands(node), Nodes)
  BY <1>2, <1>4
<1> QED BY <1>2, <1>5, CallsJoined DEF GenericOp

LEMMA OperationEffects ==
  ASSUME NEW Nodes, TreesOf(Nodes), KnownFrames(todo, Nodes), compileMathOp
  PROVE  Effect(Nodes)
<1>1. todo # <<>> /\ This.fn # "endCodeBlock" /\ Node.type # "NONE"
  BY DEF compileMathOp, At, Is
<1>2. CASE Goes(<<>>, <<>>)
  BY <1>1, <1>2, NoCalls, GoesKept
<1>3. CASE \E instrs : Does(GenericOp(Node, instrs), <<>>) /\ UNCHANGED tables
  <2>1. PICK instrs : todo' = GenericOp(Node, instrs) \o Tail(todo) /\ UNCHANGED tables
    BY <1>3 DEF Does, Runs
  <2>2. PlainCalls(GenericOp(Node, instrs), Nodes)
    BY <1>1, AtFrame, OperandsPlain
  <2> QED BY <1>1, <2>1, <2>2, RunsKept DEF Effect, NamesKept, tables
<1> QED BY <1>2, <1>3 DEF compileMathOp

LEMMA ConditionEffects ==
  ASSUME NEW Nodes, TreesOf(Nodes), KnownFrames(todo, Nodes), compileLogicalExpr
  PROVE  Effect(Nodes)
<1>1. todo # <<>> /\ This.fn # "endCodeBlock"
  BY DEF compileLogicalExpr, At
<1>2. CASE Derails
  BY <1>2, DerailsKept
<1>3. CASE Node.type # "NONE" /\ Goes(<<Frame("compileLogicalExpr", Node.right, 0)>>, <<>>)
  <2>1. PlainCalls(<<Frame("compileLogicalExpr", Node.right, 0)>>, Nodes)
    BY <1>1, <1>3, AtFrame, CallsOfOne
  <2> QED BY <1>1, <1>3, <2>1, GoesKept
<1>4. CASE /\ Node.type # "NONE" /\ UNCHANGED tables
           /\ Runs(Decide(Node) \o Told(Tail(todo), Condition(Node)), <<>>)
  <2>1. Node \in Nodes
    BY <1>1, AtFrame
  <2>2. PlainCalls(GenericOp(Node, <<Gen("TST")>>), Nodes)
        /\ PlainCalls(GenericOp(Node, <<Gen("CMP")>>), Nodes)
    BY <1>4, <2>1, OperandsPlain
  <2>3. PlainCalls(Test(Node), Nodes)
    BY <2>1, CallsOfOne, CallsOfTwo DEF Test
  <2>4. PlainCalls(Decide(Node), Nodes)
    BY <2>2, <2>3, NoCalls DEF Decide
  <2>5. SameCalls(Told(Tail(todo), Condition(Node)), Tail(todo), Nodes)
    <3>1. KnownFrames(Tail(todo), Nodes)
      BY <1>1, TailFrames DEF SameCalls
    <3> QED BY <3>1, ToldSame
  <2>6. todo' = Decide(Node) \o Told(Tail(todo), Condition(Node))
    BY <1>4 DEF Runs
  <2> QED BY <1>1, <1>4, <2>4, <2>5, <2>6 DEF Effect, StackKept, NamesKept, tables
<1> QED BY <1>2, <1>3, <1>4 DEF compileLogicalExpr, IsNone, Is

LEMMA BodyPlain ==
  ASSUME NEW Nodes, TreesOf(Nodes), NEW node \in Nodes
  PROVE  PlainCalls(<<Body(node)>>, Nodes)
BY CallsOfOne DEF Body

(* The second half of a branch or a loop.                                  *)
LEMMA SecondHalves ==
  ASSUME NEW Nodes, TreesOf(Nodes), KnownFrames(todo, Nodes), todo # <<>>,
         Node.type # "NONE", NEW id
  PROVE  /\ PlainCalls(<<[This EXCEPT !.fn = "branch", !.id = id]>>, Nodes)
         /\ PlainCalls(<<[This EXCEPT !.fn = "loop", !.id = id]>>, Nodes)
<1> DEFINE b == [This EXCEPT !.fn = "branch", !.id = id]
           l == [This EXCEPT !.fn = "loop", !.id = id]
<1>1. IsFrame(This, Nodes) /\ This.node.type # "NONE"
  BY AtFrame DEF Node
<1>2. DOMAIN b = DOMAIN This /\ b.node = This.node /\ b.fn = "branch"
  BY <1>1 DEF IsFrame
<1>3. DOMAIN l = DOMAIN This /\ l.node = This.node /\ l.fn = "loop"
  BY <1>1 DEF IsFrame
<1> HIDE DEF b, l
<1>4. PlainCalls(<<b>>, Nodes) /\ PlainCalls(<<l>>, Nodes)
  BY <1>1, <1>2, <1>3, RestOf
<1> QED BY <1>4 DEF b, l

LEMMA BranchEffects ==
  ASSUME NEW Nodes, TreesOf(Nodes), KnownFrames(todo, Nodes), compileIf \/ branch
  PROVE  Effect(Nodes)
<1>1. CASE compileIf
  <2> DEFINE rest == [This EXCEPT !.fn = "branch", !.id = pos.lbl_id]
             cond == Frame("compileLogicalExpr", Node.left, 0)
  <2>1. /\ todo # <<>> /\ This.fn # "endCodeBlock" /\ Node.type # "NONE"
        /\ todo' = <<cond, rest>> \o Tail(todo)
        /\ NamesKept
    BY <1>1 DEF compileIf, At, Is, Does, Runs, NamesKept
  <2>2. PlainCalls(<<cond>>, Nodes)
    BY <2>1, AtFrame, CallsOfOne
  <2>3. PlainCalls(<<rest>>, Nodes)
    BY <2>1, SecondHalves
  <2> HIDE DEF rest, cond
  <2>4. PlainCalls(<<cond, rest>>, Nodes)
    BY <2>2, <2>3, CallsOfTwo
  <2> QED BY <2>1, <2>4, RunsKept DEF Effect
<1>2. CASE branch
  <2> DEFINE rest == Later(<<emitTableLbl(IfEnd(This.id)), Begin("NONLIN_E")>>)
  <2>1. /\ todo # <<>> /\ This.fn = "branch"
        /\ Goes(<<Body(Node.right), rest>>, JumpOver(This.cond, IfEnd(This.id)))
    BY <1>2 DEF branch, At
  <2>2. Node.type # "NONE"
    BY <2>1, AtFrame DEF IsFrame, Node
  <2>3. PlainCalls(<<Body(Node.right)>>, Nodes)
    BY <2>1, <2>2, AtFrame, BodyPlain
  <2>4. PlainCalls(<<rest>>, Nodes)
    BY CallsOfOne
  <2>5. PlainCalls(<<Body(Node.right), rest>>, Nodes)
    BY <2>3, <2>4, CallsOfTwo
  <2> HIDE DEF rest
  <2> QED BY <2>1, <2>5, GoesKept
<1> QED BY <1>1, <1>2

LEMMA LoopEffects ==
  ASSUME NEW Nodes, TreesOf(Nodes), KnownFrames(todo, Nodes), compileWhile \/ loop
  PROVE  Effect(Nodes)
<1>1. CASE compileWhile
  <2> DEFINE mid == WhileMid(pos.lbl_id)
             rest == <<[This EXCEPT !.fn = "loop", !.id = pos.lbl_id]>>
             body == <<Body(Node.right), Later(<<emitTableLbl(mid)>>)>>
             cond == <<Frame("compileLogicalExpr", Node.left, 0)>>
             frames == TestsLast(Node, mid) \o rest
  <2>1. /\ todo # <<>> /\ This.fn # "endCodeBlock" /\ Node.type # "NONE"
        /\ todo' = frames \o Tail(todo)
        /\ NamesKept
    <3>1. todo # <<>> /\ This.fn # "endCodeBlock" /\ Node.type # "NONE"
      BY <1>1 DEF compileWhile, At, Is
    <3>2. \E instrs : Does(frames, instrs)
      BY <1>1, Zenon DEF compileWhile
    <3>3. todo' = frames \o Tail(todo)
      BY <3>2, Zenon DEF Does, Runs
    <3>4. NamesKept
      BY <1>1, Zenon DEF compileWhile, NamesKept
    <3> QED BY <3>1, <3>3, <3>4
  <2>2. PlainCalls(rest, Nodes)
    BY <2>1, SecondHalves
  <2>3. PlainCalls(cond, Nodes)
    BY <2>1, AtFrame, CallsOfOne
  <2>4. PlainCalls(body, Nodes)
    <3>1. PlainCalls(<<Body(Node.right)>>, Nodes)
      BY <2>1, AtFrame, BodyPlain
    <3> QED BY <3>1, CallsOfOne, CallsOfTwo
  <2>5. TestsLast(Node, mid) = body \o cond
    BY DEF TestsLast
  <2> HIDE DEF rest, body, cond
  <2>6. PlainCalls(frames, Nodes)
    BY <2>2, <2>3, <2>4, <2>5, CallsJoined
  <2> HIDE DEF frames
  <2> QED BY <2>1, <2>6, RunsKept DEF Effect
<1>2. CASE loop
  <2>1. todo # <<>> /\ This.fn # "endCodeBlock" /\ \E instrs : Goes(<<>>, instrs)
    BY <1>2 DEF loop, At
  <2> QED BY <2>1, NoCalls, GoesKept
<1> QED BY <1>1, <1>2

LEMMA OtherEffects ==
  ASSUME NEW Nodes, TreesOf(Nodes), KnownFrames(todo, Nodes),
         compileMiscOp \/ endOfProgram \/ overflow
  PROVE  Effect(Nodes)
<1>1. CASE compileMiscOp
  <2>1. todo # <<>> /\ This.fn # "endCodeBlock"
    BY <1>1 DEF compileMiscOp, At
  <2>2. CASE Goes(<<>>, <<>>)
    BY <2>1, <2>2, NoCalls, GoesKept
  <2>3. CASE Node.type # "NONE" /\
          Goes(<<Block(Node.right, 1), [This EXCEPT !.fn = "derefValue", !.old = ret]>>, <<>>)
    <3>1. IsFrame(This, Nodes) /\ Node.right \in Nodes
      BY <2>1, <2>3, AtFrame
    <3> DEFINE rest == [This EXCEPT !.fn = "derefValue", !.old = ret]
    <3>2. DOMAIN rest = DOMAIN This /\ rest.node = This.node /\ rest.fn = "derefValue"
      BY <3>1 DEF IsFrame
    <3> HIDE DEF rest
    <3>3. PlainCalls(<<rest>>, Nodes) /\ PlainCalls(<<Block(Node.right, 1)>>, Nodes)
      BY <3>1, <3>2, RestOf, CallsOfOne
    <3>4. PlainCalls(<<Block(Node.right, 1), rest>>, Nodes)
      BY <3>3, CallsOfTwo
    <3> QED BY <2>1, <2>3, <3>4, GoesKept DEF rest
  <2>4. CASE Does(<<>>, derefInstrs(This.req)) /\ UNCHANGED tables
    <3>1. todo' = <<>> \o Tail(todo)
      BY <2>4 DEF Does, Runs
    <3> QED BY <2>1, <2>4, <3>1, NoCalls, RunsKept DEF Effect, NamesKept, tables
  <2> QED BY <1>1, <2>2, <2>3, <2>4 DEF compileMiscOp, Is
<1>2. CASE endOfProgram \/ overflow
  BY <1>2 DEF endOfProgram, overflow, Effect, StackKept, NamesKept, tables
<1> QED BY <1>1, <1>2

LEMMA FunctionEffects ==
  ASSUME NEW Nodes, TreesOf(Nodes), KnownFrames(todo, Nodes), compileFuncDef
  PROVE  Effect(Nodes)
<1>1. todo # <<>> /\ This.fn # "endCodeBlock" /\ Node.type # "NONE"
  BY DEF compileFuncDef, At, Is
<1>2. CASE Fails(<<>>, <<>>)
  BY <1>1, <1>2, NoCalls, GoesKept
<1>3. CASE ~ Fails(<<>>, <<>>)
  <2> DEFINE header == [This EXCEPT !.fn = "funcHeader", !.id = Len(emitted) + 4]
             args == Frame("compileFuncDefArgs", Node.right.left, 0)
             rest == Later(<<emitRetInstruction(0, TRUE), Begin("RMSF"), Begin("SECT_E")>>)
             body == <<Block(Node.right.right, 0), rest>>
             front == IF IsNone(Node.right.left) THEN <<>> ELSE <<args, header>>
  <2>1. Is(Node.right, "SEP") /\ programCreateFunc(Node.left.data)
    BY <1>3 DEF compileFuncDef
  <2>2. todo' = (front \o body) \o Tail(todo)
    <3>1. \E instrs : Does(front \o body, instrs)
      BY <1>3, Zenon DEF compileFuncDef
    <3> QED BY <3>1, Zenon DEF Does, Runs
  <2>3. Node.right.left \in Nodes /\ Node.right.right \in Nodes
    <3>1. Node.right \in Nodes /\ Node.right.type # "NONE"
      BY <1>1, <2>1, AtFrame DEF Is
    <3> QED BY <3>1 DEF TreesOf
  <2>4. PlainCalls(body, Nodes)
    BY <2>3, CallsOfOne, CallsOfTwo
  <2>5. PlainCalls(<<args>>, Nodes)
    BY <2>3, CallsOfOne
  <2>6. PlainCalls(<<header>>, Nodes)
    <3>1. IsFrame(This, Nodes)
      BY <1>1, AtFrame
    <3>2. DOMAIN header = DOMAIN This /\ header.node = This.node /\ header.fn = "funcHeader"
      BY <3>1 DEF IsFrame
    <3> HIDE DEF header
    <3> QED BY <3>1, <3>2, RestOf
  <2> HIDE DEF body, args, header
  <2>7. PlainCalls(front, Nodes)
    BY <2>5, <2>6, CallsOfTwo, NoCalls
  <2> HIDE DEF front
  <2>8. PlainCalls(front \o body, Nodes)
    BY <2>4, <2>7, CallsJoined
  <2>9. StackKept(Nodes)
    BY <1>1, <2>2, <2>8, RunsKept
  <2> QED BY <2>1, <2>9 DEF Effect, NameAdded
<1> QED BY <1>2, <1>3

LEMMA ParameterEffects ==
  ASSUME NEW Nodes, TreesOf(Nodes), KnownFrames(todo, Nodes), compileFuncDefArgs
  PROVE  Effect(Nodes)
<1>1. todo # <<>> /\ This.fn # "endCodeBlock"
  BY DEF compileFuncDefArgs, At
<1>2. CASE Derails
  BY <1>2, DerailsKept
<1>3. CASE /\ Node.type = "VAR" /\ programCreateVar(Node.data)
           /\ \E instrs : Runs(Counted(Tail(todo), "funcHeader"), instrs)
  <2>1. KnownFrames(Tail(todo), Nodes)
    BY <1>1, TailFrames DEF SameCalls
  <2> DEFINE calls == Counted(Tail(todo), "funcHeader")
  <2>2. SameCalls(calls, Tail(todo), Nodes)
    BY <2>1, CountedSame
  <2>3. todo' = calls
    BY <1>3 DEF Runs
  <2> HIDE DEF calls
  <2>4. PICK S : calls \in Seq(S)
    BY <2>2 DEF SameCalls, KnownFrames, Sequence
  <2>5. todo' = <<>> \o calls
    BY <2>3, <2>4
  <2>6. NameAdded
    BY <1>1, <1>3, AtFrame DEF NameAdded
  <2> QED BY <1>1, <2>2, <2>5, <2>6, NoCalls DEF Effect, StackKept
<1>4. CASE /\ Node.type # "NONE"
           /\ Goes(<<Frame("compileFuncDefArgs", Node.left, 0),
                     Frame("compileFuncDefArgs", Node.right, 0)>>, <<>>)
  <2> DEFINE frames == <<Frame("compileFuncDefArgs", Node.left, 0),
                         Frame("compileFuncDefArgs", Node.right, 0)>>
  <2>1. /\ PlainCalls(<<Frame("compileFuncDefArgs", Node.left, 0)>>, Nodes)
        /\ PlainCalls(<<Frame("compileFuncDefArgs", Node.right, 0)>>, Nodes)
    BY <1>1, <1>4, AtFrame, CallsOfOne
  <2>2. PlainCalls(frames, Nodes)
    BY <2>1, CallsOfTwo
  <2> QED BY <1>1, <1>4, <2>2, GoesKept
<1> QED BY <1>2, <1>3, <1>4 DEF compileFuncDefArgs

LEMMA HeaderEffects ==
  ASSUME NEW Nodes, TreesOf(Nodes), KnownFrames(todo, Nodes), funcHeader
  PROVE  Effect(Nodes)
<1>1. todo # <<>> /\ This.fn # "endCodeBlock" /\ todo' = Tail(todo) /\ ArgsNoted
  BY DEF funcHeader, At, ArgsNoted
<1>2. PICK S : Tail(todo) \in Seq(S)
  BY <1>1, TailFrames DEF SameCalls, KnownFrames, Sequence
<1>3. todo' = <<>> \o Tail(todo)
  BY <1>1, <1>2
<1> QED BY <1>1, <1>3, NoCalls, RunsKept DEF Effect

LEMMA CallEffects ==
  ASSUME NEW Nodes, TreesOf(Nodes), KnownFrames(todo, Nodes), compileFuncCall
  PROVE  Effect(Nodes)
<1>1. todo # <<>> /\ This.fn # "endCodeBlock"
  BY DEF compileFuncCall, At
<1>2. CASE At("callFunction")
  <2>1. Fails(<<>>, <<>>) \/ \E instrs : Goes(<<>>, instrs)
    BY <1>2 DEF compileFuncCall, At
  <2> QED BY <1>1, <2>1, NoCalls, GoesKept
<1>3. CASE ~ At("callFunction")
  <2> DEFINE rest == [This EXCEPT !.fn = "callFunction"]
             args == Frame("compileCommaList", Node.right, 1)
             front == IF IsNone(Node.right) THEN <<>> ELSE <<args>>
  <2>1. Node.type = "FUNC" /\ Goes(front \o <<rest>>, <<>>)
    BY <1>3, Zenon DEF compileFuncCall
  <2>2. IsFrame(This, Nodes) /\ Node.right \in Nodes
    BY <1>1, <2>1, AtFrame
  <2>3. DOMAIN rest = DOMAIN This /\ rest.node = This.node /\ rest.fn = "callFunction"
    BY <2>2 DEF IsFrame
  <2> HIDE DEF rest
  <2>4. PlainCalls(<<rest>>, Nodes)
    BY <2>2, <2>3, RestOf
  <2>5. PlainCalls(front, Nodes)
    BY <2>2, CallsOfOne, NoCalls
  <2> HIDE DEF front
  <2>6. PlainCalls(front \o <<rest>>, Nodes)
    BY <2>4, <2>5, CallsJoined
  <2> QED BY <1>1, <2>1, <2>6, GoesKept
<1> QED BY <1>2, <1>3

LEMMA ListEffects ==
  ASSUME NEW Nodes, TreesOf(Nodes), KnownFrames(todo, Nodes), compileCommaList
  PROVE  Effect(Nodes)
<1>1. todo # <<>> /\ This.fn = "compileCommaList" /\ NamesKept
  BY DEF compileCommaList, At, NamesKept, tables
<1>2. CASE Is(Node, "COMMA")
  <2>1. todo' = <<This>> \o todo
    BY <1>2 DEF compileCommaList, Runs
  <2>2. PICK S : todo \in Seq(S)
    BY DEF KnownFrames, Sequence
  <2>3. todo' = (<<This>> \o <<This>>) \o Tail(todo)
    <3>1. Head(todo) \in S /\ Tail(todo) \in Seq(S) /\ todo = <<Head(todo)>> \o Tail(todo)
      BY <1>1, <2>2
    <3>2. <<This>> \o (<<This>> \o Tail(todo)) = (<<This>> \o <<This>>) \o Tail(todo)
      BY <3>1 DEF This
    <3> QED BY <2>1, <3>1, <3>2 DEF This
  <2>4. PlainCalls(<<This>> \o <<This>>, Nodes)
    BY <1>1, AtFrame, OneCall, CallsJoined
  <2> QED BY <1>1, <2>3, <2>4, RunsKept DEF Effect
<1>3. CASE ~ Is(Node, "COMMA")
  <2> DEFINE frames == <<Block(Node, This.req)>>
             calls == Counted(Tail(todo), "callFunction")
  <2>1. todo' = frames \o calls
    BY <1>3 DEF compileCommaList, Runs
  <2>2. PlainCalls(frames, Nodes)
    BY <1>1, AtFrame, CallsOfOne
  <2>3. SameCalls(calls, Tail(todo), Nodes)
    <3>1. KnownFrames(Tail(todo), Nodes)
      BY <1>1, TailFrames DEF SameCalls
    <3> QED BY <3>1, CountedSame
  <2> HIDE DEF frames, calls
  <2> QED BY <1>1, <2>1, <2>2, <2>3 DEF Effect, StackKept
<1> QED BY <1>2, <1>3

-----------------------------------------------------------------------------
(* The tables.  Markers separate the levels: a marker is the last entry of *)
(* its level, and every level below the open one has its marker.           *)

MarkerAt(tab, p) == tab[p].name = "!base!"
VarsBefore(tab, p) == {q \in 2 .. p - 1 : ~ MarkerAt(tab, q)}

OrderedDepths(table, level) ==
  /\ \A p \in 1 .. Len(table) : table[p].depth \in 0 .. level
  /\ \A p, q \in 1 .. Len(table) : p < q => table[p].depth <= table[q].depth
MarkersLast(tab, level) ==
  /\ \A p \in 1 .. Len(tab) : MarkerAt(tab, p) => tab[p].depth < level
  /\ \A p, q \in 1 .. Len(tab) :
       p < q /\ MarkerAt(tab, p) => tab[p].depth < tab[q].depth
  /\ \A below \in 0 .. level - 1 :
       \E p \in 1 .. Len(tab) : MarkerAt(tab, p) /\ tab[p].depth = below
Addressed(tab, offset) ==
  /\ \A p \in 2 .. Len(tab) : tab[p].addr = Cardinality(VarsBefore(tab, p))
  /\ offset = Cardinality(VarsBefore(tab, Len(tab) + 1))

VarsNest(tab, level, offset) ==
  /\ Sequence(tab) /\ Len(tab) \in Nat \ {0} /\ ~ MarkerAt(tab, 1)
  /\ OrderedDepths(tab, level)
  /\ MarkersLast(tab, level)
  /\ Addressed(tab, offset)
FuncsNest(funcs, level) ==
  /\ Sequence(funcs) /\ OrderedDepths(funcs, level)
  /\ \A p \in 1 .. Len(funcs) : {"name", "depth"} \subseteq DOMAIN funcs[p]

LEMMA Appended ==
  ASSUME NEW s, Sequence(s), NEW e
  PROVE  /\ Sequence(Append(s, e)) /\ Len(s) \in Nat /\ Len(Append(s, e)) = Len(s) + 1
         /\ \A p \in 1 .. Len(s) : Append(s, e)[p] = s[p]
         /\ Append(s, e)[Len(s) + 1] = e
<1>1. PICK S : s \in Seq(S)
  BY DEF Sequence
<1>2. s \in Seq(S \cup {e}) /\ e \in S \cup {e}
  BY <1>1, SeqMonotonic
<1>3. /\ Append(s, e) \in Seq(S \cup {e}) /\ Len(s) \in Nat /\ Len(Append(s, e)) = Len(s) + 1
      /\ \A p \in 1 .. Len(s) : Append(s, e)[p] = s[p]
      /\ Append(s, e)[Len(s) + 1] = e
  BY <1>2, AppendProperties
<1> QED BY <1>3 DEF Sequence

LEMMA Shortened ==
  ASSUME NEW s, Sequence(s), NEW n \in 0 .. Len(s)
  PROVE  /\ Sequence(SubSeq(s, 1, n)) /\ Len(SubSeq(s, 1, n)) = n /\ Len(s) \in Nat
         /\ \A p \in 1 .. n : SubSeq(s, 1, n)[p] = s[p]
<1>1. PICK S : s \in Seq(S)
  BY DEF Sequence
<1>2. /\ SubSeq(s, 1, n) \in Seq(S) /\ Len(SubSeq(s, 1, n)) = n /\ Len(s) \in Nat
      /\ \A p \in 1 .. n : SubSeq(s, 1, n)[p] = s[p]
  BY <1>1
<1> QED BY <1>2 DEF Sequence

LEMMA DepthsAppended ==
  ASSUME NEW s, Sequence(s), NEW level \in Nat, OrderedDepths(s, level), NEW e, e.depth = level
  PROVE  OrderedDepths(Append(s, e), level)
<1> DEFINE t == Append(s, e)  n == Len(s)
<1>1. /\ n \in Nat /\ Len(t) = n + 1 /\ t[n + 1] = e
      /\ \A p \in 1 .. n : t[p] = s[p]
  BY Appended
<1> HIDE DEF t
<1>2. \A p \in 1 .. n + 1 : p \in 1 .. n \/ p = n + 1
  BY <1>1
<1>3. \A p \in 1 .. n + 1 : t[p].depth \in 0 .. level
  BY <1>1, <1>2 DEF OrderedDepths
<1>4. ASSUME NEW p \in 1 .. n + 1, NEW q \in 1 .. n + 1, p < q
      PROVE  t[p].depth <= t[q].depth
  <2>1. p \in 1 .. n
    BY <1>1, <1>4
  <2>2. CASE q \in 1 .. n
    BY <1>1, <1>4, <2>1, <2>2 DEF OrderedDepths
  <2>3. CASE q = n + 1
    BY <1>1, <1>3, <2>3
  <2> QED BY <2>2, <2>3, <1>2
<1> QED BY <1>1, <1>3, <1>4 DEF OrderedDepths, t

LEMMA BeforeFinite ==
  ASSUME NEW tab, NEW p \in Nat
  PROVE  IsFiniteSet(VarsBefore(tab, p)) /\ Cardinality(VarsBefore(tab, p)) \in Nat
<1>1. VarsBefore(tab, p) \subseteq 2 .. p - 1
  BY DEF VarsBefore
<1>2. IsFiniteSet(2 .. p - 1)
  BY FS_Interval
<1> QED BY <1>1, <1>2, FS_Subset, FS_CardinalityType

(* The next address counts a new entry unless it is a marker.              *)
LEMMA AddressAppended ==
  ASSUME NEW tab, Sequence(tab), Len(tab) \in Nat \ {0},
         NEW offset, Addressed(tab, offset), NEW e, e.addr = offset
  PROVE  Addressed(Append(tab, e), IF e.name = "!base!" THEN offset ELSE offset + 1)
<1> DEFINE t == Append(tab, e)  n == Len(tab)
<1>1. /\ n \in Nat \ {0} /\ Len(t) = n + 1 /\ t[n + 1] = e
      /\ \A p \in 1 .. n : t[p] = tab[p]
  BY Appended
<1> HIDE DEF t, n
<1>2. ASSUME NEW p \in 2 .. n + 1 PROVE VarsBefore(t, p) = VarsBefore(tab, p)
  <2>1. \A q \in 2 .. p - 1 : q \in 1 .. n
    BY <1>1
  <2> QED BY <1>1, <2>1 DEF VarsBefore, MarkerAt
<1>3. offset = Cardinality(VarsBefore(t, n + 1))
  BY <1>1, <1>2 DEF Addressed, n
<1>4. ASSUME NEW p \in 2 .. n + 1 PROVE t[p].addr = Cardinality(VarsBefore(t, p))
  <2>1. CASE p = n + 1
    BY <1>1, <1>3, <2>1
  <2>2. CASE p \in 2 .. n
    BY <1>1, <1>2, <2>2 DEF Addressed, n
  <2> QED BY <2>1, <2>2, <1>1
<1>5. VarsBefore(t, n + 2) = VarsBefore(t, n + 1) \cup (IF MarkerAt(t, n + 1) THEN {} ELSE {n + 1})
  <2>1. \A q : q \in 2 .. n + 1 <=> q \in 2 .. n \/ q = n + 1
    BY <1>1
  <2>2. (n + 2) - 1 = n + 1 /\ (n + 1) - 1 = n
    BY <1>1
  <2> QED BY <2>1, <2>2 DEF VarsBefore
<1>6. /\ IsFiniteSet(VarsBefore(t, n + 1)) /\ n + 1 \notin VarsBefore(t, n + 1)
      /\ Cardinality(VarsBefore(t, n + 1)) \in Nat
  <2>1. n + 1 \notin VarsBefore(t, n + 1)
    BY <1>1 DEF VarsBefore
  <2> QED BY <1>1, <2>1, BeforeFinite
<1>7. Cardinality(VarsBefore(t, n + 2)) = IF e.name = "!base!" THEN offset ELSE offset + 1
  <2>1. CASE e.name = "!base!"
    BY <1>1, <1>3, <1>5, <2>1 DEF MarkerAt
  <2>2. CASE e.name # "!base!"
    <3>1. VarsBefore(t, n + 2) = VarsBefore(t, n + 1) \cup {n + 1}
      BY <1>1, <1>5, <2>2 DEF MarkerAt
    <3> QED BY <1>3, <1>6, <2>2, <3>1, FS_AddElement
  <2> QED BY <2>1, <2>2
<1>8. Len(t) + 1 = n + 2
  BY <1>1
<1> QED BY <1>1, <1>4, <1>7, <1>8 DEF Addressed, t

LEMMA VariableAppended ==
  ASSUME NEW tab, NEW level \in Nat, NEW offset, VarsNest(tab, level, offset),
         NEW e, e.name # "!base!", e.depth = level, e.addr = offset
  PROVE  VarsNest(Append(tab, e), level, offset + 1)
<1> DEFINE t == Append(tab, e)  n == Len(tab)
<1>1. /\ Sequence(t) /\ n \in Nat \ {0} /\ Len(t) = n + 1 /\ t[n + 1] = e
      /\ \A p \in 1 .. n : t[p] = tab[p]
  BY Appended DEF VarsNest
<1>2. OrderedDepths(t, level) /\ Addressed(t, offset + 1)
  BY DepthsAppended, AddressAppended DEF VarsNest
<1> HIDE DEF t
<1>3. \A p \in 1 .. n + 1 : p \in 1 .. n \/ p = n + 1
  BY <1>1
<1>4. \A p \in 1 .. n + 1 : MarkerAt(t, p) => p \in 1 .. n /\ MarkerAt(tab, p)
  BY <1>1, <1>3 DEF MarkerAt
<1>5. \A p \in 1 .. n + 1 : MarkerAt(t, p) => t[p].depth < level
  BY <1>1, <1>4 DEF VarsNest, MarkersLast
<1>6. ASSUME NEW p \in 1 .. n + 1, NEW q \in 1 .. n + 1, p < q, MarkerAt(t, p)
      PROVE  t[p].depth < t[q].depth
  <2>1. CASE q \in 1 .. n
    BY <1>1, <1>4, <1>6, <2>1 DEF VarsNest, MarkersLast
  <2>2. CASE q = n + 1
    BY <1>1, <1>5, <1>6, <2>2
  <2> QED BY <2>1, <2>2, <1>3
<1>7. ASSUME NEW below \in 0 .. level - 1
      PROVE  \E p \in 1 .. n + 1 : MarkerAt(t, p) /\ t[p].depth = below
  <2>1. PICK p \in 1 .. n : MarkerAt(tab, p) /\ tab[p].depth = below
    BY DEF VarsNest, MarkersLast
  <2>2. p \in 1 .. n + 1 /\ MarkerAt(t, p) /\ t[p].depth = below
    BY <1>1, <2>1 DEF MarkerAt
  <2> QED BY <2>2
<1>8. MarkersLast(t, level)
  BY <1>1, <1>5, <1>6, <1>7 DEF MarkersLast
<1>9. ~ MarkerAt(t, 1)
  BY <1>1 DEF VarsNest, MarkerAt
<1> QED BY <1>1, <1>2, <1>8, <1>9 DEF VarsNest, t

LEMMA MarkerAppended ==
  ASSUME NEW tab, NEW level \in Nat, NEW offset, VarsNest(tab, level, offset),
         NEW e, e.name = "!base!", e.depth = level, e.addr = offset
  PROVE  VarsNest(Append(tab, e), level + 1, offset)
<1> DEFINE t == Append(tab, e)  n == Len(tab)
<1>1. /\ Sequence(t) /\ n \in Nat \ {0} /\ Len(t) = n + 1 /\ t[n + 1] = e
      /\ \A p \in 1 .. n : t[p] = tab[p]
  BY Appended DEF VarsNest
<1>2. OrderedDepths(t, level) /\ Addressed(t, offset)
  BY DepthsAppended, AddressAppended DEF VarsNest
<1> HIDE DEF t
<1>3. \A p \in 1 .. n + 1 : p \in 1 .. n \/ p = n + 1
  BY <1>1
<1>4. OrderedDepths(t, level + 1) /\ \A p \in 1 .. n + 1 : t[p].depth < level + 1
  BY <1>1, <1>2 DEF OrderedDepths
<1>5. ASSUME NEW p \in 1 .. n + 1, NEW q \in 1 .. n + 1, p < q, MarkerAt(t, p)
      PROVE  t[p].depth < t[q].depth
  <2>1. p \in 1 .. n /\ MarkerAt(tab, p) /\ t[p] = tab[p]
    BY <1>1, <1>5 DEF MarkerAt
  <2>2. CASE q \in 1 .. n
    BY <1>1, <1>5, <2>1, <2>2 DEF VarsNest, MarkersLast
  <2>3. CASE q = n + 1
    BY <1>1, <2>1, <2>3 DEF VarsNest, MarkersLast
  <2> QED BY <2>2, <2>3, <1>3
<1>6. ASSUME NEW below \in 0 .. level
      PROVE  \E p \in 1 .. n + 1 : MarkerAt(t, p) /\ t[p].depth = below
  <2>1. CASE below = level
    BY <1>1, <2>1 DEF MarkerAt
  <2>2. CASE below \in 0 .. level - 1
    <3>1. PICK p \in 1 .. n : MarkerAt(tab, p) /\ tab[p].depth = below
      BY <2>2 DEF VarsNest, MarkersLast
    <3>2. p \in 1 .. n + 1 /\ MarkerAt(t, p) /\ t[p].depth = below
      BY <1>1, <3>1 DEF MarkerAt
    <3> QED BY <3>2
  <2> QED BY <2>1, <2>2
<1>7. MarkersLast(t, level + 1)
  <2>1. (level + 1) - 1 = level
    OBVIOUS
  <2> QED BY <1>1, <1>4, <1>5, <1>6, <2>1 DEF MarkersLast
<1>8. ~ MarkerAt(t, 1)
  BY <1>1 DEF VarsNest, MarkerAt
<1> QED BY <1>1, <1>2, <1>4, <1>7, <1>8 DEF VarsNest, t

(* varTableDescendLvl finds the end of the level below.                    *)
LEMMA LevelDropped ==
  ASSUME NEW tab, Sequence(tab), NEW level \in Nat, NEW above \in Nat, OrderedDepths(tab, above)
  PROVE  /\ \E n \in 0 .. Len(tab) :
              /\ DescendLvl(tab, level) = SubSeq(tab, 1, n)
              /\ \A p \in 1 .. n : tab[p].depth < level
              /\ \A p \in 1 .. Len(tab) : tab[p].depth < level => p <= n
<1> DEFINE S == {0} \cup {p \in DOMAIN tab : tab[p].depth < level}  n == Max(S)
<1>1. Len(tab) \in Nat /\ DOMAIN tab = 1 .. Len(tab)
  BY DEF Sequence
<1>2. S \in SUBSET (0 .. Len(tab)) /\ S # {}
  BY <1>1
<1>3. n \in S /\ \A p \in S : n >= p
  <2> HIDE DEF S
  <2> QED BY <1>1, <1>2, MaxFacts
<1>4. n \in 0 .. Len(tab) /\ (n # 0 => n \in DOMAIN tab /\ tab[n].depth < level)
  BY <1>1, <1>3
<1>5. \A p \in 1 .. Len(tab) : tab[p].depth < level => p <= n
  <2>1. \A p \in 1 .. Len(tab) : tab[p].depth < level => p \in S
    BY <1>1
  <2> HIDE DEF S
  <2>2. \A p \in S : p <= n
    BY <1>2, <1>3, <1>4
  <2> QED BY <2>1, <2>2
<1>6. DescendLvl(tab, level) = SubSeq(tab, 1, n)
  BY DEF DescendLvl
<1> HIDE DEF S, n
<1>7. ASSUME NEW p \in 1 .. n PROVE tab[p].depth < level
  <2>1. p \in 1 .. Len(tab) /\ n \in 1 .. Len(tab) /\ (p = n \/ p < n) /\ tab[n].depth < level
    BY <1>1, <1>4
  <2>2. tab[p].depth <= tab[n].depth /\ tab[p].depth \in Nat /\ tab[n].depth \in Nat
    BY <2>1 DEF OrderedDepths
  <2> QED BY <2>1, <2>2
<1> QED BY <1>4, <1>5, <1>6, <1>7

LEMMA FuncsDropped ==
  ASSUME NEW tab, NEW level \in Nat \ {0}, FuncsNest(tab, level)
  PROVE  FuncsNest(DescendLvl(tab, level), level - 1)
<1>1. PICK n \in 0 .. Len(tab) :
        /\ DescendLvl(tab, level) = SubSeq(tab, 1, n)
        /\ \A p \in 1 .. n : tab[p].depth < level
  BY LevelDropped DEF FuncsNest
<1> DEFINE t == SubSeq(tab, 1, n)
<1>2. /\ Sequence(t) /\ Len(t) = n /\ Len(tab) \in Nat
      /\ \A p \in 1 .. n : t[p] = tab[p]
  BY Shortened DEF FuncsNest
<1> HIDE DEF t
<1>3. \A p \in 1 .. n : p \in 1 .. Len(tab)
  BY <1>2
<1>4. \A p \in 1 .. n : t[p].depth \in 0 .. level - 1
  BY <1>1, <1>2, <1>3 DEF FuncsNest, OrderedDepths
<1>5. \A p, q \in 1 .. n : p < q => t[p].depth <= t[q].depth
  BY <1>2, <1>3 DEF FuncsNest, OrderedDepths
<1>6. \A p \in 1 .. n : {"name", "depth"} \subseteq DOMAIN t[p]
  BY <1>2, <1>3 DEF FuncsNest
<1> QED BY <1>1, <1>2, <1>4, <1>5, <1>6 DEF FuncsNest, OrderedDepths, t

(* The last entry kept is the marker of the level below, which holds the   *)
(* address to go on with.                                                  *)
LEMMA VarsDropped ==
  ASSUME NEW tab, NEW level \in Nat \ {0}, NEW offset, VarsNest(tab, level, offset)
  PROVE  LET kept == DescendLvl(tab, level)
         IN  VarsNest(SubSeq(kept, 1, Len(kept) - 1), level - 1, kept[Len(kept)].addr)
<1> DEFINE kept == DescendLvl(tab, level)
<1>1. Sequence(tab) /\ Len(tab) \in Nat \ {0} /\ OrderedDepths(tab, level)
  BY DEF VarsNest
<1>2. PICK n \in 0 .. Len(tab) :
        /\ kept = SubSeq(tab, 1, n)
        /\ \A p \in 1 .. n : tab[p].depth < level
        /\ \A p \in 1 .. Len(tab) : tab[p].depth < level => p <= n
  BY <1>1, LevelDropped
<1>3. PICK m \in 1 .. Len(tab) : MarkerAt(tab, m) /\ tab[m].depth = level - 1
  BY DEF VarsNest, MarkersLast
<1>4. n = m
  <2>1. m <= n
    BY <1>2, <1>3
  <2>2. ASSUME m < n PROVE FALSE
    <3>1. n \in 1 .. Len(tab) /\ n \in 1 .. n
      BY <1>1, <2>2, <1>3
    <3>2. tab[m].depth < tab[n].depth /\ tab[n].depth < level /\ tab[n].depth \in Nat
      BY <1>1, <1>2, <1>3, <2>2, <3>1 DEF VarsNest, MarkersLast, OrderedDepths
    <3> QED BY <1>3, <3>2
  <2> QED BY <2>1, <2>2, <1>1
<1>5. m > 1
  BY <1>1, <1>3 DEF VarsNest
<1>6. /\ Sequence(kept) /\ Len(kept) = m /\ \A p \in 1 .. m : kept[p] = tab[p]
  BY <1>1, <1>2, <1>4, Shortened
<1> HIDE DEF kept
<1> DEFINE t == SubSeq(kept, 1, Len(kept) - 1)
<1>7. m - 1 \in Nat \ {0} /\ m - 1 \in 0 .. m /\ (m - 1) + 1 = m
  BY <1>1, <1>5
<1>8. /\ Sequence(t) /\ Len(t) = m - 1 /\ \A p \in 1 .. m - 1 : t[p] = kept[p]
  BY <1>6, <1>7, Shortened
<1>9. \A p \in 1 .. m - 1 : p \in 1 .. m /\ p \in 1 .. Len(tab) /\ p < m
  BY <1>1, <1>7
<1>10. \A p \in 1 .. m - 1 : t[p] = tab[p]
  BY <1>6, <1>8, <1>9
<1> HIDE DEF t
<1>11. OrderedDepths(t, level - 1)
  <2>1. \A p \in 1 .. m - 1 : t[p].depth \in 0 .. level - 1
    BY <1>1, <1>2, <1>4, <1>9, <1>10 DEF OrderedDepths
  <2>2. \A p, q \in 1 .. m - 1 : p < q => t[p].depth <= t[q].depth
    BY <1>1, <1>9, <1>10 DEF OrderedDepths
  <2> QED BY <1>8, <2>1, <2>2 DEF OrderedDepths
<1>12. MarkersLast(t, level - 1)
  <2>1. \A p \in 1 .. m - 1 : MarkerAt(t, p) => MarkerAt(tab, p)
    BY <1>10 DEF MarkerAt
  <2>2. ASSUME NEW p \in 1 .. m - 1, MarkerAt(t, p) PROVE t[p].depth < level - 1
    BY <1>3, <1>9, <1>10, <2>1, <2>2 DEF VarsNest, MarkersLast
  <2>3. \A p, q \in 1 .. m - 1 : p < q /\ MarkerAt(t, p) => t[p].depth < t[q].depth
    BY <1>9, <1>10, <2>1 DEF VarsNest, MarkersLast
  <2>4. ASSUME NEW below \in 0 .. (level - 1) - 1
        PROVE  \E p \in 1 .. m - 1 : MarkerAt(t, p) /\ t[p].depth = below
    <3>1. PICK p \in 1 .. Len(tab) : MarkerAt(tab, p) /\ tab[p].depth = below
      BY SMTT(30) DEF VarsNest, MarkersLast
    <3>2. p < m
      <4>1. p <= m
        BY <1>2, <1>4, <3>1
      <4>2. p # m
        BY <1>3, <3>1
      <4> QED BY <4>1, <4>2, <1>1
    <3>3. p \in 1 .. m - 1
      BY <1>1, <3>2
    <3>4. MarkerAt(t, p) /\ t[p].depth = below
      BY <1>10, <3>1, <3>3 DEF MarkerAt
    <3> QED BY <3>3, <3>4
  <2> QED BY <1>8, <2>2, <2>3, <2>4 DEF MarkersLast
<1>13. ASSUME NEW p \in 2 .. m PROVE VarsBefore(t, p) = VarsBefore(tab, p)
  <2>1. \A q \in 2 .. p - 1 : q \in 1 .. m - 1
    BY <1>1
  <2> QED BY <1>10, <2>1 DEF VarsBefore, MarkerAt
<1>14. Addressed(t, kept[Len(kept)].addr)
  <2>1. \A p \in 2 .. m : tab[p].addr = Cardinality(VarsBefore(tab, p))
    BY <1>1 DEF VarsNest, Addressed
  <2>2. kept[Len(kept)] = tab[m] /\ m \in 2 .. m
    BY <1>6, <1>5, <1>1
  <2>3. \A p \in 2 .. m - 1 : p \in 2 .. m /\ p \in 1 .. m - 1
    BY <1>1
  <2>4. Len(t) = m - 1 /\ Len(t) + 1 = m
    BY <1>7, <1>8
  <2>5. ASSUME NEW p \in 2 .. m - 1 PROVE t[p].addr = Cardinality(VarsBefore(t, p))
    <3>1. p \in 2 .. m /\ t[p] = tab[p]
      BY <1>10, <2>3
    <3> QED BY <1>13, <2>1, <3>1
  <2>6. kept[Len(kept)].addr = Cardinality(VarsBefore(t, m))
    BY <1>13, <2>1, <2>2
  <2> QED BY <2>4, <2>5, <2>6 DEF Addressed
<1>15. ~ MarkerAt(t, 1)
  BY <1>7, <1>10 DEF VarsNest, MarkerAt
<1> QED BY <1>7, <1>8, <1>11, <1>12, <1>14, <1>15 DEF VarsNest, t, kept

(* What the invariant says of the names.                                   *)
LEMMA NamesOfTables ==
  ASSUME pos.lvl \in Nat, VarsNest(objVars, pos.lvl, pos.rbp_offset), FuncsNest(objFuncs, pos.lvl)
  PROVE  NamesNest
<1>1. DOMAIN objVars = 1 .. Len(objVars) /\ DOMAIN objFuncs = 1 .. Len(objFuncs)
  BY DEF VarsNest, FuncsNest, Sequence
<1>2. \A p : VariablesBefore(p) = VarsBefore(objVars, p) /\ (IsMarker(p) <=> MarkerAt(objVars, p))
  BY DEF VariablesBefore, VarsBefore, IsMarker, MarkerAt
<1>3. \A p, q \in DOMAIN objVars : p < q => objVars[p].depth <= objVars[q].depth
  BY <1>1 DEF VarsNest, OrderedDepths
<1>4. \A p \in DOMAIN objFuncs : objFuncs[p].depth <= pos.lvl
  BY <1>1 DEF FuncsNest, OrderedDepths
<1>5. ASSUME NEW level \in 0 .. pos.lvl - 1
      PROVE  Cardinality({p \in DOMAIN objVars : IsMarker(p) /\ objVars[p].depth = level}) = 1
  <2> DEFINE S == {p \in DOMAIN objVars : IsMarker(p) /\ objVars[p].depth = level}
  <2>1. PICK m \in 1 .. Len(objVars) : MarkerAt(objVars, m) /\ objVars[m].depth = level
    BY DEF VarsNest, MarkersLast
  <2>2. \A p \in S : p = m
    <3> SUFFICES ASSUME NEW p \in S, p # m PROVE FALSE
      OBVIOUS
    <3>1. p \in 1 .. Len(objVars) /\ MarkerAt(objVars, p) /\ objVars[p].depth = level
      BY <1>1, <1>2
    <3>2. p < m \/ m < p
      BY <3>1
    <3> QED BY <2>1, <3>1, <3>2 DEF VarsNest, MarkersLast
  <2>3. S = {m}
    BY <1>1, <1>2, <2>1, <2>2
  <2> HIDE DEF S
  <2>4. Cardinality(S) = 1
    BY <2>3, FS_Singleton
  <2> QED BY <2>4 DEF S
<1>6. \A p \in 2 .. Len(objVars) : objVars[p].addr = Cardinality(VariablesBefore(p))
  BY <1>2 DEF VarsNest, Addressed
<1>7. pos.rbp_offset = Cardinality(VariablesBefore(Len(objVars) + 1))
  BY <1>2 DEF VarsNest, Addressed
<1> QED BY <1>3, <1>4, <1>5, <1>6, <1>7 DEF NamesNest

-----------------------------------------------------------------------------
(* The inductive invariant: a level of names is open for each block whose  *)
(* end is still to be compiled.                                            *)

BackInductive(Nodes) ==
  /\ KnownFrames(todo, Nodes)
  /\ {"lbl_id", "lvl", "rbp_offset", "code_block_id"} \subseteq DOMAIN pos
  /\ pos.lvl = Cardinality(Ends(todo))
  /\ VarsNest(objVars, pos.lvl, pos.rbp_offset)
  /\ FuncsNest(objFuncs, pos.lvl)

LEMMA EndsFinite ==
  ASSUME NEW s, Sequence(s)
  PROVE  IsFiniteSet(Ends(s)) /\ Cardinality(Ends(s)) \in Nat
<1>1. Ends(s) \subseteq 1 .. Len(s) /\ Len(s) \in Nat
  BY DEF Ends, Sequence
<1>2. IsFiniteSet(1 .. Len(s))
  BY <1>1, FS_Interval
<1>3. IsFiniteSet(Ends(s))
  BY <1>1, <1>2, FS_Subset
<1> QED BY <1>3, FS_CardinalityType

LEMMA BackInit ==
  ASSUME NEW Nodes, TreesOf(Nodes), BackendInit
  PROVE  BackInductive(Nodes)
<1>1. PICK program \in Programs :
        todo = <<Block(program, 0), Later(<<Begin("RMSF"), Begin("SECT_E")>>)>>
  BY DEF BackendInit
<1>2. PlainCalls(todo, Nodes)
  <2>1. program \in Nodes
    BY DEF TreesOf
  <2> QED BY <1>1, <2>1, CallsOfOne, CallsOfTwo
<1>3. KnownFrames(todo, Nodes) /\ Ends(todo) = {}
  <2>1. Len(todo) \in Nat
    BY <1>2 DEF PlainCalls, Sequence
  <2>2. \A d \in 1 .. Len(todo) : Len(todo) + 1 - d \in 1 .. Len(todo)
    BY <2>1
  <2> QED BY <1>2, <2>2 DEF PlainCalls, KnownFrames, Ends
<1>4. /\ pos = [lbl_id |-> 0, lvl |-> 0, rbp_offset |-> 0, code_block_id |-> 0]
      /\ objVars = <<Base>> /\ objFuncs = <<Base>>
  BY DEF BackendInit
<1>5. /\ <<Base>> \in Seq({Base}) /\ Len(<<Base>>) = 1 /\ <<Base>>[1] = Base
      /\ \A p \in 1 .. 1 : p = 1
  OBVIOUS
<1>6. /\ Base.name = "!0base!" /\ Base.depth = 0 /\ {"name", "depth"} \subseteq DOMAIN Base
  BY DEF Base, Entry0
<1> DEFINE b == <<Base>>
<1>7. Sequence(b)
  BY <1>5 DEF Sequence
<1>8. OrderedDepths(b, 0)
  BY <1>5, <1>6 DEF OrderedDepths
<1>9. MarkersLast(b, 0) /\ ~ MarkerAt(b, 1)
  <2>1. ~ MarkerAt(b, 1)
    BY <1>5, <1>6 DEF MarkerAt
  <2>2. 0 .. 0 - 1 = {}
    OBVIOUS
  <2> HIDE DEF b
  <2>3. Len(b) = 1
    BY <1>5 DEF b
  <2> QED BY <1>5, <2>1, <2>2, <2>3 DEF MarkersLast
<1>10. Addressed(b, 0)
  <2>1. VarsBefore(b, 2) = {}
    BY DEF VarsBefore
  <2>2. Cardinality({}) = 0
    BY FS_EmptySet
  <2>3. Len(b) = 1 /\ 2 .. 1 = {} /\ 1 + 1 = 2
    BY <1>5
  <2> HIDE DEF b
  <2> QED BY <2>1, <2>2, <2>3 DEF Addressed
<1>11. Len(b) \in Nat \ {0} /\ \A p \in 1 .. Len(b) : {"name", "depth"} \subseteq DOMAIN b[p]
  BY <1>5, <1>6
<1>12. objVars = b /\ objFuncs = b /\ pos.lvl = 0 /\ pos.rbp_offset = 0
       /\ {"lbl_id", "lvl", "rbp_offset", "code_block_id"} \subseteq DOMAIN pos
  BY <1>4
<1> HIDE DEF b
<1>13. Cardinality(Ends(todo)) = 0
  BY <1>3, FS_EmptySet
<1> QED BY <1>3, <1>7, <1>8, <1>9, <1>10, <1>11, <1>12, <1>13 DEF BackInductive, VarsNest, FuncsNest

LEMMA StackStep ==
  ASSUME NEW Nodes, KnownFrames(todo, Nodes), StackKept(Nodes)
  PROVE  KnownFrames(todo', Nodes) /\ Ends(todo') = Ends(todo)
<1>1. CASE todo' = todo
  BY <1>1
<1>2. CASE /\ todo # <<>> /\ This.fn # "endCodeBlock"
           /\ \E frames, calls :
                /\ PlainCalls(frames, Nodes) /\ SameCalls(calls, Tail(todo), Nodes)
                /\ todo' = frames \o calls
  <2>1. PICK frames, calls :
          /\ PlainCalls(frames, Nodes) /\ SameCalls(calls, Tail(todo), Nodes)
          /\ todo' = frames \o calls
    BY <1>2
  <2>2. Head(todo).fn # "endCodeBlock"
    BY <1>2 DEF This
  <2>3. KnownFrames(frames \o calls, Nodes) /\ Ends(frames \o calls) = Ends(todo)
    BY <1>2, <2>1, <2>2, EndsKept
  <2> QED BY <2>1, <2>3
<1> QED BY <1>1, <1>2 DEF StackKept

LEMMA EffectStep ==
  ASSUME NEW Nodes, BackInductive(Nodes), Effect(Nodes)
  PROVE  BackInductive(Nodes)'
<1>1. KnownFrames(todo', Nodes) /\ Cardinality(Ends(todo')) = pos.lvl
  BY StackStep DEF Effect, BackInductive
<1>2. /\ {"lbl_id", "lvl", "rbp_offset", "code_block_id"} \subseteq DOMAIN pos
      /\ VarsNest(objVars, pos.lvl, pos.rbp_offset) /\ FuncsNest(objFuncs, pos.lvl)
      /\ pos.lvl \in Nat
  BY EndsFinite DEF BackInductive, KnownFrames
<1>3. /\ DOMAIN NextId = DOMAIN pos /\ NextId.lvl = pos.lvl
      /\ NextId.rbp_offset = pos.rbp_offset
  BY <1>2 DEF NextId
<1>4. CASE NamesKept
  BY <1>1, <1>2, <1>3, <1>4 DEF NamesKept, BackInductive
<1>5. CASE \E name : name # "!base!" /\ programCreateVar(name)
  <2>1. PICK name : name # "!base!" /\ programCreateVar(name)
    BY <1>5
  <2> DEFINE e == Entry0(name, VarLabel(name), pos.lvl, pos.rbp_offset, "NONE")
  <2>2. objVars' = Append(objVars, e) /\ objFuncs' = objFuncs
        /\ pos' = [NextId EXCEPT !.rbp_offset = @ + 1]
    BY <2>1 DEF programCreateVar
  <2>3. e.name # "!base!" /\ e.depth = pos.lvl /\ e.addr = pos.rbp_offset
    BY <2>1 DEF Entry0
  <2>4. DOMAIN pos' = DOMAIN pos /\ pos'.lvl = pos.lvl /\ pos'.rbp_offset = pos.rbp_offset + 1
    BY <1>2, <1>3, <2>2
  <2> HIDE DEF e
  <2>5. VarsNest(Append(objVars, e), pos.lvl, pos.rbp_offset + 1)
    BY <1>2, <2>3, VariableAppended
  <2>6. VarsNest(objVars', pos'.lvl, pos'.rbp_offset) /\ FuncsNest(objFuncs', pos'.lvl)
    BY <1>2, <2>2, <2>4, <2>5
  <2> QED BY <1>1, <1>2, <2>4, <2>6 DEF BackInductive
<1>6. CASE \E name : programCreateFunc(name)
  <2>1. PICK name : programCreateFunc(name)
    BY <1>6
  <2> DEFINE e == Entry0(name, FuncLabel(name), pos.lvl, 0, "NONE")
             t == Append(objFuncs, e)  n == Len(objFuncs)
  <2>2. objFuncs' = t /\ objVars' = objVars /\ pos' = NextId
    BY <2>1 DEF programCreateFunc
  <2>3. e.depth = pos.lvl /\ {"name", "depth"} \subseteq DOMAIN e
    BY DEF Entry0
  <2> HIDE DEF e
  <2>4. /\ Sequence(t) /\ n \in Nat /\ Len(t) = n + 1 /\ t[n + 1] = e
        /\ \A p \in 1 .. n : t[p] = objFuncs[p]
    BY <1>2, Appended DEF FuncsNest
  <2>5. OrderedDepths(t, pos.lvl)
    BY <1>2, <2>3, DepthsAppended DEF FuncsNest
  <2> HIDE DEF t
  <2>6. \A p \in 1 .. n + 1 : p \in 1 .. n \/ p = n + 1
    BY <2>4
  <2>7. \A p \in 1 .. Len(t) : {"name", "depth"} \subseteq DOMAIN t[p]
    BY <1>2, <2>3, <2>4, <2>6 DEF FuncsNest
  <2>8. FuncsNest(t, pos.lvl)
    BY <2>4, <2>5, <2>7 DEF FuncsNest
  <2> QED BY <1>1, <1>2, <1>3, <2>2, <2>8 DEF BackInductive
<1>7. CASE ArgsNoted
  <2>1. PICK args : objFuncs' = [objFuncs EXCEPT ![Len(objFuncs)].args = args]
    BY <1>7 DEF ArgsNoted
  <2> DEFINE n == Len(objFuncs)  e == [objFuncs[n] EXCEPT !.args = args]
  <2>2. objFuncs' = [objFuncs EXCEPT ![n] = e]
    BY <2>1
  <2>3. PICK S : objFuncs \in Seq(S)
    BY <1>2 DEF FuncsNest, Sequence
  <2>4. n \in Nat /\ DOMAIN objFuncs = 1 .. n /\ objFuncs \in [1 .. n -> S]
    BY <2>3
  <2>5. n \in 1 .. n => DOMAIN e = DOMAIN objFuncs[n] /\ e.depth = objFuncs[n].depth
    BY <1>2 DEF FuncsNest
  <2> HIDE DEF e
  <2>6. objFuncs' \in [1 .. n -> S \cup {e}]
    BY <2>2, <2>4
  <2>7. objFuncs' \in Seq(S \cup {e}) /\ Len(objFuncs') = n
    BY <2>4, <2>6, IsASeq
  <2>8. \A p \in 1 .. n : objFuncs'[p] = IF p = n THEN e ELSE objFuncs[p]
    BY <2>2, <2>4
  <2>9. \A p \in 1 .. n : /\ DOMAIN objFuncs'[p] = DOMAIN objFuncs[p]
                          /\ objFuncs'[p].depth = objFuncs[p].depth
    BY <2>5, <2>8
  <2>10. Sequence(objFuncs')
    BY <2>7 DEF Sequence
  <2>11. OrderedDepths(objFuncs', pos.lvl)
    BY <1>2, <2>7, <2>9 DEF FuncsNest, OrderedDepths
  <2>12. FuncsNest(objFuncs', pos.lvl)
    BY <1>2, <2>7, <2>9, <2>10, <2>11 DEF FuncsNest
  <2> QED BY <1>1, <1>2, <1>7, <2>12 DEF BackInductive, ArgsNoted
<1> QED BY <1>4, <1>5, <1>6, <1>7 DEF Effect, NameAdded

LEMMA BeginStep ==
  ASSUME NEW Nodes, TreesOf(Nodes), BackInductive(Nodes), beginCodeBlock
  PROVE  BackInductive(Nodes)'
<1> DEFINE f == Frame("compileCode", Node, This.req)
           g == [This EXCEPT !.fn = "endCodeBlock", !.id = pos.lbl_id, !.old = pos.code_block_id]
<1>1. /\ todo # <<>> /\ This.fn # "endCodeBlock"
      /\ objVars' = Append(objVars, Marker) /\ objFuncs' = objFuncs
      /\ pos' = [NextId EXCEPT !.lvl = @ + 1, !.code_block_id = pos.lbl_id]
  BY DEF beginCodeBlock, At, programAscendLvl
<1>2. todo' = <<f, g>> \o Tail(todo)
  <2>1. \E instrs : Does(<<f, g>>, instrs)
    BY Zenon DEF beginCodeBlock
  <2> QED BY <2>1, Zenon DEF Does, Runs
<1>3. /\ KnownFrames(todo, Nodes) /\ pos.lvl = Cardinality(Ends(todo))
      /\ {"lbl_id", "lvl", "rbp_offset", "code_block_id"} \subseteq DOMAIN pos
      /\ VarsNest(objVars, pos.lvl, pos.rbp_offset) /\ FuncsNest(objFuncs, pos.lvl)
  BY DEF BackInductive
<1>4. IsFiniteSet(Ends(todo)) /\ pos.lvl \in Nat
  BY <1>3, EndsFinite DEF KnownFrames
<1>5. IsFrame(This, Nodes) /\ Node \in Nodes
  BY <1>1, <1>3, AtFrame
<1>6. IsFrame(f, Nodes) /\ f.fn # "endCodeBlock"
  <2> HIDE DEF g
  <2>1. IsFrame(f, Nodes) /\ f.fn = "compileCode"
    BY <1>5, FrameOf
  <2> HIDE DEF f
  <2> QED BY <2>1
<1>7. IsFrame(g, Nodes) /\ g.fn = "endCodeBlock"
  <2>1. DOMAIN g = DOMAIN This /\ g.node = This.node /\ g.fn = "endCodeBlock"
    BY <1>5 DEF IsFrame
  <2> HIDE DEF g
  <2> QED BY <1>5, <2>1 DEF IsFrame
<1>8. Head(todo).fn # "endCodeBlock"
  BY <1>1 DEF This
<1> HIDE DEF f, g
<1>9. /\ KnownFrames(<<f, g>> \o Tail(todo), Nodes)
      /\ Ends(<<f, g>> \o Tail(todo)) = Ends(todo) \cup {Len(todo)}
      /\ Len(todo) \notin Ends(todo)
  BY <1>1, <1>3, <1>6, <1>7, <1>8, EndsOpened
<1>10. KnownFrames(todo', Nodes) /\ Cardinality(Ends(todo')) = pos.lvl + 1
  BY <1>2, <1>3, <1>4, <1>9, FS_AddElement
<1>11. /\ DOMAIN pos' = DOMAIN pos /\ pos'.lvl = pos.lvl + 1
       /\ pos'.rbp_offset = pos.rbp_offset
  BY <1>1, <1>3 DEF NextId
<1>12. Marker.name = "!base!" /\ Marker.depth = pos.lvl /\ Marker.addr = pos.rbp_offset
  BY DEF Marker, Entry0
<1>13. VarsNest(Append(objVars, Marker), pos.lvl + 1, pos.rbp_offset)
  BY <1>3, <1>4, <1>12, MarkerAppended
<1>14. FuncsNest(objFuncs, pos.lvl + 1)
  <2>1. \A p \in 1 .. Len(objFuncs) : objFuncs[p].depth \in 0 .. pos.lvl + 1
    BY <1>3, <1>4 DEF FuncsNest, OrderedDepths
  <2> QED BY <1>3, <2>1 DEF FuncsNest, OrderedDepths
<1>15. VarsNest(objVars', pos'.lvl, pos'.rbp_offset) /\ FuncsNest(objFuncs', pos'.lvl)
  BY <1>1, <1>11, <1>13, <1>14
<1> QED BY <1>3, <1>10, <1>11, <1>15 DEF BackInductive

LEMMA EndStep ==
  ASSUME NEW Nodes, TreesOf(Nodes), BackInductive(Nodes), endCodeBlock
  PROVE  BackInductive(Nodes)'
<1> DEFINE kept == DescendLvl(objVars, pos.lvl)
<1>1. /\ todo # <<>> /\ Head(todo).fn = "endCodeBlock"
      /\ todo' = <<>> \o Tail(todo)
  BY DEF endCodeBlock, At, This, Does, Runs
<1>2. /\ objVars' = SubSeq(kept, 1, Len(kept) - 1)
      /\ objFuncs' = DescendLvl(objFuncs, pos.lvl)
      /\ pos' = [pos EXCEPT !.rbp_offset = MarkedOffset(kept), !.lvl = @ - 1,
                            !.code_block_id = This.old]
  BY DEF endCodeBlock, programDescendLvl
<1>3. /\ KnownFrames(todo, Nodes) /\ pos.lvl = Cardinality(Ends(todo))
      /\ {"lbl_id", "lvl", "rbp_offset", "code_block_id"} \subseteq DOMAIN pos
      /\ VarsNest(objVars, pos.lvl, pos.rbp_offset) /\ FuncsNest(objFuncs, pos.lvl)
  BY DEF BackInductive
<1>4. IsFiniteSet(Ends(todo)) /\ pos.lvl \in Nat
  BY <1>3, EndsFinite DEF KnownFrames
<1>5. /\ KnownFrames(todo', Nodes) /\ Ends(todo') = Ends(todo) \ {Len(todo)}
      /\ Len(todo) \in Ends(todo)
  BY <1>1, <1>3, EndsClosed
<1>6. Cardinality(Ends(todo')) = pos.lvl - 1
  BY <1>3, <1>4, <1>5, FS_RemoveElement
<1>7. pos.lvl \in Nat \ {0}
  BY <1>3, <1>4, <1>5, FS_EmptySet
<1> HIDE DEF kept
<1>8. /\ DOMAIN pos' = DOMAIN pos /\ pos'.lvl = pos.lvl - 1
      /\ pos'.rbp_offset = kept[Len(kept)].addr
  BY <1>2, <1>3 DEF MarkedOffset
<1>9. VarsNest(SubSeq(kept, 1, Len(kept) - 1), pos.lvl - 1, kept[Len(kept)].addr)
  BY <1>3, <1>7, VarsDropped DEF kept
<1>10. FuncsNest(DescendLvl(objFuncs, pos.lvl), pos.lvl - 1)
  BY <1>3, <1>7, FuncsDropped
<1>11. VarsNest(objVars', pos'.lvl, pos'.rbp_offset) /\ FuncsNest(objFuncs', pos'.lvl)
  BY <1>2, <1>8, <1>9, <1>10
<1> QED BY <1>3, <1>5, <1>6, <1>8, <1>11 DEF BackInductive

LEMMA PipeInductive ==
  ASSUME NEW Nodes, TreesOf(Nodes), BackInductive(Nodes), [PipeNext]_pipeVars
  PROVE  BackInductive(Nodes)'
<1>1. CASE UNCHANGED backVars
  BY <1>1 DEF backVars, tables, BackInductive
<1>2. CASE beginCodeBlock
  BY <1>2, BeginStep
<1>3. CASE endCodeBlock
  BY <1>3, EndStep
<1>4. CASE CompileNext /\ ~ beginCodeBlock /\ ~ endCodeBlock
  <2>1. KnownFrames(todo, Nodes)
    BY DEF BackInductive
  <2>2. Effect(Nodes)
    BY <1>4, <2>1, StatementEffects, ValueEffects, DefinitionOfVariable, TargetEffects,
       AssignmentEffects, OperationEffects, ConditionEffects, BranchEffects, LoopEffects,
       OtherEffects, FunctionEffects, ParameterEffects, HeaderEffects, CallEffects, ListEffects
    DEF CompileNext
  <2> QED BY <2>2, EffectStep
<1>5. CompileNext \/ UNCHANGED backVars
  <2>1. PipeNext => CompileNext \/ UNCHANGED backVars
    BY Zenon DEF PipeNext, PipeStep, compileProgram, translateEmitted, endOfEmitted, link, pipeVars
  <2>2. UNCHANGED pipeVars => UNCHANGED backVars
    BY DEF pipeVars
  <2> QED BY <2>1, <2>2
<1> QED BY <1>1, <1>2, <1>3, <1>4, <1>5

(* Whatever the trees are, names nest through the whole compilation:       *)
(* programDescendLvl closes the level its programAscendLvl opened, and     *)
(* gives back the addresses of the variables defined in between.           *)
THEOREM NamesHold ==
  ASSUME NEW Nodes, TreesOf(Nodes)
  PROVE  PipeSpec => []NamesNest
<1>1. PipeInit => BackInductive(Nodes)
  BY BackInit DEF PipeInit
<1>2. BackInductive(Nodes) /\ [PipeNext]_pipeVars => BackInductive(Nodes)'
  BY PipeInductive
<1>3. BackInductive(Nodes) => NamesNest
  BY NamesOfTables, EndsFinite DEF BackInductive, KnownFrames
<1> QED BY <1>1, <1>2, <1>3, PTL DEF PipeSpec
=============================================================================
