--------------------------- MODULE SqlParser_proofs ---------------------------
(***************************************************************************)
(* Invariants of SqlParser for any names, literals and length of a line.   *)
(* TypeInv: the stack is a path of the parser's automaton from state 0,    *)
(* with values that its symbols have.  OwnInv: each string on the heap     *)
(* belongs to one symbol.  FullInv: what is on the stack spells the line   *)
(* that is typed, until it is answered or found to be ill-formed.          *)
(***************************************************************************)
EXTENDS SqlParser, TLAPS, FiniteSetTheorems, SequenceTheorems, WellFoundedInduction

States == 0 .. 45

\* The states that look at a token.
Reading == {1, 3, 4, 5, 16, 19, 20, 21, 22, 23, 24, 26, 28, 30, 31, 32, 40}

\* Token x takes the parser from state p to state s.
Moves(p, x, s) ==
  \/ p = 1 /\ <<x, s>> \in {<<0, 2>>, <<1, 3>>, <<3, 4>>, <<6, 5>>, <<9, 6>>, <<15, 7>>}
  \/ p = 3 /\ x = 15 /\ s = 12
  \/ p = 4 /\ <<x, s>> \in {<<10, 13>>, <<14, 14>>, <<18, 15>>}
  \/ p \in {5, 20} /\ x = 18 /\ s = 18
  \/ p = 16 /\ x = 4 /\ s = 20
  \/ p = 19 /\ x = 4 /\ s = 21
  \/ p = 21 /\ x = 17 /\ s = 23
  \/ p = 22 /\ <<x, s>> \in {<<5, 24>>, <<15, 25>>}
  \/ p = 23 /\ <<x, s>> \in {<<7, 26>>, <<15, 27>>}
  \/ p \in {24, 32} /\ x = 18 /\ s = 15
  \/ p = 26 /\ x = 8 /\ s = 31
  \/ p = 28 /\ <<x, s>> \in {<<11, 32>>, <<15, 33>>}
  \/ p = 30 /\ x \in 19 .. 24 /\ s = x + 15
  \/ p = 31 /\ x = 15 /\ s = 41
  \/ p = 40 /\ x \in 16 .. 17 /\ s = x + 27

\* State s may be on p on the stack.
Edge(p, s) ==
  \/ p = 0 /\ s = 1
  \/ p = 1 /\ s \in {3, 4, 5, 6, 7, 8, 10, 11}
  \/ p = 3 /\ s = 12
  \/ p = 4 /\ s \in {13, 14, 15, 16, 17}
  \/ p = 5 /\ s \in {18, 19}
  \/ p = 16 /\ s = 20
  \/ p = 19 /\ s = 21
  \/ p = 20 /\ s \in {18, 22}
  \/ p = 21 /\ s = 23
  \/ p = 22 /\ s \in {24, 25}
  \/ p = 23 /\ s \in {26, 27}
  \/ p = 24 /\ s \in {15, 28, 29, 30}
  \/ p = 26 /\ s = 31
  \/ p = 28 /\ s \in {32, 33}
  \/ p = 30 /\ s \in {34, 35, 36, 37, 38, 39, 40}
  \/ p = 31 /\ s = 41
  \/ p = 32 /\ s \in {15, 30, 42}
  \/ p = 40 /\ s \in {43, 44, 45}

\* How many states are below s on the stack at most.
Depth == <<0, 1, 2, 2, 2, 2, 2, 2, 2, 2, 2, 2, 3, 3, 3, 9, 3, 3, 5, 3, 4, 4, 5,
           5, 6, 6, 6, 6, 7, 7, 9, 7, 8, 8, 10, 10, 10, 10, 10, 10, 10, 8, 9,
           11, 11, 11>>

\* In a state s that does not look at a token the parser reduces by rule n:
\* so many symbols to the symbol y.
Reduces(s, n, size, y) ==
  \/ s = 0 /\ n = 3 /\ size = 0 /\ y = 26
  \/ s = 2 /\ n = 1 /\ size = 2 /\ y = 25
  \/ s = 6 /\ n = 9 /\ size = 1 /\ y = 28
  \/ s = 7 /\ n = 8 /\ size = 1 /\ y = 27
  \/ s = 8 /\ n = 2 /\ size = 2 /\ y = 26
  \/ s = 9 /\ n = 6 /\ size = 1 /\ y = 27
  \/ s = 10 /\ n = 4 /\ size = 1 /\ y = 27
  \/ s = 11 /\ n = 5 /\ size = 1 /\ y = 27
  \/ s = 12 /\ n = 7 /\ size = 2 /\ y = 27
  \/ s = 13 /\ n = 19 /\ size = 1 /\ y = 33
  \/ s = 14 /\ n = 18 /\ size = 1 /\ y = 33
  \/ s = 15 /\ n = 20 /\ size = 1 /\ y = 34
  \/ s = 17 /\ n = 17 /\ size = 1 /\ y = 33
  \/ s = 18 /\ n = 23 /\ size = 1 /\ y = 36
  \/ s = 25 /\ n = 12 /\ size = 5 /\ y = 30
  \/ s = 27 /\ n = 10 /\ size = 5 /\ y = 29
  \/ s = 29 /\ n = 14 /\ size = 1 /\ y = 31
  \/ s = 33 /\ n = 13 /\ size = 7 /\ y = 30
  \/ s \in 34 .. 39 /\ n \in 24 .. 29 /\ size = 1 /\ y = 37
  \/ s = 41 /\ n = 11 /\ size = 7 /\ y = 29
  \/ s = 42 /\ n = 15 /\ size = 3 /\ y = 31
  \/ s = 43 /\ n = 21 /\ size = 1 /\ y = 35
  \/ s = 44 /\ n = 22 /\ size = 1 /\ y = 35
  \/ s = 45 /\ n = 16 /\ size = 3 /\ y = 32

\* Where the state p goes on the symbol y.
Goes(p, y, s) ==
  \/ y = 26 /\ p = 0 /\ s = 1
  \/ y = 27 /\ p = 1 /\ s = 8
  \/ y = 29 /\ p = 1 /\ s = 10
  \/ y = 30 /\ p = 1 /\ s = 11
  \/ y = 31 /\ p = 24 /\ s = 28
  \/ y = 32 /\ p = 24 /\ s = 29
  \/ y = 32 /\ p = 32 /\ s = 42
  \/ y = 33 /\ p = 4 /\ s = 16
  \/ y = 34 /\ p = 4 /\ s = 17
  \/ y = 34 /\ p \in {24, 32} /\ s = 30
  \/ y = 35 /\ p = 40 /\ s = 45
  \/ y = 36 /\ p = 5 /\ s = 19
  \/ y = 36 /\ p = 20 /\ s = 22
  \/ y = 37 /\ p = 30 /\ s = 40

LEMMA PactIs ==
  \A p \in States : YYPACT[p + 1] # YYPACT_NINF <=> p \in Reading
BY SMTT(60) DEF States, YYPACT, YYPACT_NINF, Reading

LEMMA ShiftIs ==
  ASSUME NEW p \in Reading, NEW x \in 0 .. 24
  PROVE  /\ Shifts(p, x) => Moves(p, x, ShiftTo(p, x))
         /\ \A s : Moves(p, x, s) => Shifts(p, x) /\ ShiftTo(p, x) = s
BY SMTT(100) DEF Reading, YYPACT, YYPACT_NINF, Shifts, ShiftTo, Listed, YYCHECK,
                 YYTABLE, YYLAST, Moves

LEMMA MoveFacts ==
  ASSUME NEW p, NEW x \in 0 .. 24, NEW s, Moves(p, x, s), x # 0
  PROVE  s \in States /\ Edge(p, s) /\ YYSTOS[s + 1] = x /\ s # 2
BY SMTT(60) DEF Moves, Edge, YYSTOS, States

LEMMA EdgeFacts ==
  ASSUME NEW p, NEW s, Edge(p, s)
  PROVE  p \in States /\ s \in States /\ Depth[s + 1] >= Depth[p + 1] + 1
BY SMTT(60) DEF Edge, Depth, States

LEMMA DepthFacts ==
  \A s \in States : Depth[s + 1] \in 0 .. 11
BY SMTT(60) DEF States, Depth

LEMMA ReduceIs ==
  ASSUME NEW s \in States, s \notin Reading
  PROVE  LET n == YYDEFACT[s + 1] IN
         /\ n \in 1 .. 29
         /\ Reduces(s, n, YYR2[n + 1], YYR1[n + 1])
<1> DEFINE n == YYDEFACT[s + 1]
           size == YYR2[n + 1]
           y == YYR1[n + 1]
<1> SUFFICES n \in 1 .. 29 /\ Reduces(s, n, size, y)
  OBVIOUS
<1>1. /\ YYDEFACT[1] = 3 /\ YYDEFACT[3] = 1 /\ YYDEFACT[7] = 9 /\ YYDEFACT[8] = 8
     /\ YYDEFACT[9] = 2 /\ YYDEFACT[10] = 6 /\ YYDEFACT[11] = 4 /\ YYDEFACT[12] = 5
     /\ YYDEFACT[13] = 7 /\ YYDEFACT[14] = 19 /\ YYDEFACT[15] = 18 /\ YYDEFACT[16] = 20
     /\ YYDEFACT[18] = 17 /\ YYDEFACT[19] = 23 /\ YYDEFACT[26] = 12 /\ YYDEFACT[28] = 10
     /\ YYDEFACT[30] = 14 /\ YYDEFACT[34] = 13 /\ YYDEFACT[35] = 24 /\ YYDEFACT[36] = 25
     /\ YYDEFACT[37] = 26 /\ YYDEFACT[38] = 28 /\ YYDEFACT[39] = 27 /\ YYDEFACT[40] = 29
     /\ YYDEFACT[42] = 11 /\ YYDEFACT[43] = 15 /\ YYDEFACT[44] = 21 /\ YYDEFACT[45] = 22
     /\ YYDEFACT[46] = 16
  BY SMTT(60) DEF YYDEFACT
<1>2. /\ YYR1[2] = 25 /\ YYR1[3] = 26 /\ YYR1[4] = 26 /\ YYR1[5] = 27 /\ YYR1[6] = 27
     /\ YYR1[7] = 27 /\ YYR1[8] = 27 /\ YYR1[9] = 27 /\ YYR1[10] = 28 /\ YYR1[11] = 29
     /\ YYR1[12] = 29 /\ YYR1[13] = 30 /\ YYR1[14] = 30 /\ YYR1[15] = 31 /\ YYR1[16] = 31
     /\ YYR1[17] = 32 /\ YYR1[18] = 33 /\ YYR1[19] = 33 /\ YYR1[20] = 33 /\ YYR1[21] = 34
     /\ YYR1[22] = 35 /\ YYR1[23] = 35 /\ YYR1[24] = 36 /\ YYR1[25] = 37 /\ YYR1[26] = 37
     /\ YYR1[27] = 37 /\ YYR1[28] = 37 /\ YYR1[29] = 37 /\ YYR1[30] = 37
  BY SMTT(60) DEF YYR1
<1>3. /\ YYR2[2] = 2 /\ YYR2[3] = 2 /\ YYR2[4] = 0 /\ YYR2[5] = 1 /\ YYR2[6] = 1
     /\ YYR2[7] = 1 /\ YYR2[8] = 2 /\ YYR2[9] = 1 /\ YYR2[10] = 1 /\ YYR2[11] = 5
     /\ YYR2[12] = 7 /\ YYR2[13] = 5 /\ YYR2[14] = 7 /\ YYR2[15] = 1 /\ YYR2[16] = 3
     /\ YYR2[17] = 3 /\ YYR2[18] = 1 /\ YYR2[19] = 1 /\ YYR2[20] = 1 /\ YYR2[21] = 1
     /\ YYR2[22] = 1 /\ YYR2[23] = 1 /\ YYR2[24] = 1 /\ YYR2[25] = 1 /\ YYR2[26] = 1
     /\ YYR2[27] = 1 /\ YYR2[28] = 1 /\ YYR2[29] = 1 /\ YYR2[30] = 1
  BY SMTT(60) DEF YYR2
<1>4. CASE s \in {0, 2, 6, 7, 8, 9}
  <2>1. /\ s = 0 => n = 3 /\ size = 0 /\ y = 26
        /\ s = 2 => n = 1 /\ size = 2 /\ y = 25
        /\ s = 6 => n = 9 /\ size = 1 /\ y = 28
        /\ s = 7 => n = 8 /\ size = 1 /\ y = 27
        /\ s = 8 => n = 2 /\ size = 2 /\ y = 26
        /\ s = 9 => n = 6 /\ size = 1 /\ y = 27
    BY <1>1, <1>2, <1>3
  <2> HIDE DEF n, size, y
  <2> QED BY <1>4, <2>1, SMTT(60) DEF Reduces
<1>5. CASE s \in {10, 11, 12, 13, 14, 15}
  <2>1. /\ s = 10 => n = 4 /\ size = 1 /\ y = 27
        /\ s = 11 => n = 5 /\ size = 1 /\ y = 27
        /\ s = 12 => n = 7 /\ size = 2 /\ y = 27
        /\ s = 13 => n = 19 /\ size = 1 /\ y = 33
        /\ s = 14 => n = 18 /\ size = 1 /\ y = 33
        /\ s = 15 => n = 20 /\ size = 1 /\ y = 34
    BY <1>1, <1>2, <1>3
  <2> HIDE DEF n, size, y
  <2> QED BY <1>5, <2>1, SMTT(60) DEF Reduces
<1>6. CASE s \in {17, 18, 25, 27, 29, 33}
  <2>1. /\ s = 17 => n = 17 /\ size = 1 /\ y = 33
        /\ s = 18 => n = 23 /\ size = 1 /\ y = 36
        /\ s = 25 => n = 12 /\ size = 5 /\ y = 30
        /\ s = 27 => n = 10 /\ size = 5 /\ y = 29
        /\ s = 29 => n = 14 /\ size = 1 /\ y = 31
        /\ s = 33 => n = 13 /\ size = 7 /\ y = 30
    BY <1>1, <1>2, <1>3
  <2> HIDE DEF n, size, y
  <2> QED BY <1>6, <2>1, SMTT(60) DEF Reduces
<1>7. CASE s \in {34, 35, 36, 37, 38, 39}
  <2>1. /\ s = 34 => n = 24 /\ size = 1 /\ y = 37
        /\ s = 35 => n = 25 /\ size = 1 /\ y = 37
        /\ s = 36 => n = 26 /\ size = 1 /\ y = 37
        /\ s = 37 => n = 28 /\ size = 1 /\ y = 37
        /\ s = 38 => n = 27 /\ size = 1 /\ y = 37
        /\ s = 39 => n = 29 /\ size = 1 /\ y = 37
    BY <1>1, <1>2, <1>3
  <2> HIDE DEF n, size, y
  <2> QED BY <1>7, <2>1, SMTT(60) DEF Reduces
<1>8. CASE s \in {41, 42, 43, 44, 45}
  <2>1. /\ s = 41 => n = 11 /\ size = 7 /\ y = 29
        /\ s = 42 => n = 15 /\ size = 3 /\ y = 31
        /\ s = 43 => n = 21 /\ size = 1 /\ y = 35
        /\ s = 44 => n = 22 /\ size = 1 /\ y = 35
        /\ s = 45 => n = 16 /\ size = 3 /\ y = 32
    BY <1>1, <1>2, <1>3
  <2> HIDE DEF n, size, y
  <2> QED BY <1>8, <2>1, SMTT(60) DEF Reduces
<1>9. s \in {0, 2, 6, 7, 8, 9, 10, 11, 12, 13, 14, 15, 17, 18, 25, 27, 29,
             33, 34, 35, 36, 37, 38, 39, 41, 42, 43, 44, 45}
  BY SMTT(60) DEF States, Reading
<1> QED BY <1>4, <1>5, <1>6, <1>7, <1>8, <1>9

LEMMA DefactIs ==
  \A s \in Reading : YYDEFACT[s + 1] = 0
BY SMTT(60) DEF Reading, YYDEFACT

LEMMA GotoIs ==
  ASSUME NEW p, NEW y, NEW s, Goes(p, y, s)
  PROVE  GoTo(p, y) = s /\ Edge(p, s) /\ s \in States /\ YYSTOS[s + 1] = y
BY SMTT(60) DEF Goes, GoTo, YYPGOTO, YYDEFGOTO, YYNTOKENS, Listed, YYLAST, YYCHECK,
                YYTABLE, Edge, States, YYSTOS
-----------------------------------------------------------------------------
(* What is on the stack.                                                   *)

Texted == {T.INTEGER, T.STRING, T.ID}

Conditions == [attr : {1, 2, Junk}, comp : 0 .. 5, value : Strings]

\* The values of symbol x.
Meets(x, v) ==
  /\ x \in {16, 17, 18, 35, 36} => v \in Strings
  /\ x \in {33, 34, 37} => v \in Integer
  /\ x = 34 => v.integer \in {1, 2, Junk}
  /\ x = 37 => v.integer \in 0 .. 5
  /\ x = 32 => v \in Conditions
  /\ x = 31 => v.conds \in Seq(Conditions) /\ v.conds # <<>>

Values == {Garbage} \cup Strings \cup Integer \cup Conditions \cup [conds : Seq(Conditions)]
Slots == [state : States, val : Values]

StackIn == stack \in Seq(Slots) /\ stack # <<>> /\ stack[1].state = 0
Chained == \A i \in 2 .. Len(stack) : Edge(stack[i - 1].state, stack[i].state)
Ranked == \A i \in 1 .. Len(stack) : i <= Depth[stack[i].state + 1] + 1
Valued == \A i \in 1 .. Len(stack) : Meets(YYSTOS[stack[i].state + 1], stack[i].val)

StackInv == StackIn /\ Chained /\ Ranked /\ Valued

ScanInv ==
  /\ yychar \in Typed \cup {YYEMPTY}
  /\ yylval \in {Garbage} \cup Strings
  /\ yychar \in Texted => yylval \in Strings
  /\ yychar # YYEMPTY => Top \in Reading

StatusInv ==
  /\ yyerrstatus \in 0 .. 3
  /\ yyerrstatus = 3 <=> Top = 3

HeapIn ==
  /\ heap \in SUBSET Nat /\ IsFiniteSet(heap)
  /\ wild \in BOOLEAN
  /\ result \in {"running", "0", "1"}

TypeInv == StackInv /\ ScanInv /\ StatusInv /\ HeapIn

-----------------------------------------------------------------------------
(* Pushing and popping.                                                    *)

\* The state and the value that are j places below the top.
S(j) == stack[Len(stack) - j].state
V(j) == stack[Len(stack) - j].val

\* The first m slots stay, and the state g with value v is put on them.
Pushed(m, g, v) ==
  /\ m \in 1 .. Len(stack) /\ Len(stack') = m + 1
  /\ \A i \in 1 .. m : stack'[i] = stack[i]
  /\ stack'[m + 1] = [state |-> g, val |-> v]
  /\ stack' \in Seq(Slots)

LEMMA Push ==
  ASSUME StackIn, NEW m \in 1 .. Len(stack), NEW g \in States, NEW v \in Values,
         stack' = Append(SubSeq(stack, 1, m), [state |-> g, val |-> v])
  PROVE  Pushed(m, g, v)
<1> DEFINE b == SubSeq(stack, 1, m)
           x == [state |-> g, val |-> v]
<1>1. stack \in Seq(Slots) /\ x \in Slots /\ m \in Nat /\ m <= Len(stack)
  BY DEF StackIn, Slots
<1>2. b \in Seq(Slots) /\ Len(b) = m /\ \A i \in 1 .. m : b[i] = stack[i]
  BY <1>1
<1> HIDE DEF b, x
<1>3. stack' = Append(b, x)
  BY DEF b, x
<1>4. stack' \in Seq(Slots) /\ Len(stack') = m + 1 /\ stack'[m + 1] = x
      /\ \A i \in 1 .. m : stack'[i] = b[i]
  BY <1>1, <1>2, <1>3
<1> QED BY <1>2, <1>4 DEF Pushed, x

LEMMA PushKeeps ==
  ASSUME StackInv, NEW m, NEW g, NEW v, Pushed(m, g, v),
         Edge(stack[m].state, g), Meets(YYSTOS[g + 1], v)
  PROVE  StackInv' /\ Top' = g
<1>1. /\ m \in Nat /\ m >= 1 /\ m <= Len(stack) /\ stack \in Seq(Slots) /\ Len(stack) \in Nat
      /\ g \in States /\ Depth[g + 1] >= Depth[stack[m].state + 1] + 1
  BY EdgeFacts DEF Pushed, StackInv, StackIn
<1>2. /\ Len(stack') = m + 1 /\ stack'[m + 1] = [state |-> g, val |-> v]
      /\ \A i \in 1 .. m : stack'[i] = stack[i]
      /\ stack' \in Seq(Slots)
  BY DEF Pushed
<1>3. StackIn'
  <2>1. stack'[1] = stack[1]
    BY <1>1, <1>2
  <2>2. stack' # <<>>
    BY <1>1, <1>2
  <2> QED BY <1>2, <2>1, <2>2 DEF StackInv, StackIn
<1>4. \A i \in 1 .. m : /\ i <= Depth[stack[i].state + 1] + 1
                        /\ Meets(YYSTOS[stack[i].state + 1], stack[i].val)
  BY <1>1 DEF StackInv, Ranked, Valued
<1>5. \A i \in 2 .. m : Edge(stack[i - 1].state, stack[i].state)
  BY <1>1 DEF StackInv, Chained
<1>6. m + 1 <= Depth[g + 1] + 1
  <2>1. stack[m].state \in States
    BY EdgeFacts
  <2>2. Depth[g + 1] \in Int /\ Depth[stack[m].state + 1] \in Int
    BY <1>1, <2>1, DepthFacts
  <2> QED BY <1>1, <1>4, <2>2
<1>7. Chained'
  <2> SUFFICES ASSUME NEW i \in 2 .. m + 1
               PROVE  Edge(stack'[i - 1].state, stack'[i].state)
    BY <1>2 DEF Chained
  <2>1. CASE i \in 2 .. m
    <3>1. stack'[i - 1] = stack[i - 1] /\ stack'[i] = stack[i]
      BY <1>1, <1>2, <2>1
    <3> QED BY <1>5, <2>1, <3>1
  <2>2. CASE i = m + 1
    <3>1. stack'[i - 1] = stack[m] /\ stack'[i].state = g
      BY <1>1, <1>2, <2>2
    <3> QED BY <3>1
  <2> QED BY <1>1, <2>1, <2>2
<1>8. Ranked' /\ Valued'
  <2> SUFFICES ASSUME NEW i \in 1 .. m + 1
               PROVE  /\ i <= Depth[stack'[i].state + 1] + 1
                      /\ Meets(YYSTOS[stack'[i].state + 1], stack'[i].val)
    BY <1>2 DEF Ranked, Valued
  <2>1. CASE i \in 1 .. m
    BY <1>2, <1>4, <2>1
  <2>2. CASE i = m + 1
    BY <1>2, <1>6, <2>2
  <2> QED BY <1>1, <2>1, <2>2
<1>9. Top' = g
  BY <1>2 DEF Top, Last
<1> QED BY <1>3, <1>7, <1>8, <1>9 DEF StackInv

LEMMA TopIs ==
  ASSUME StackInv
  PROVE  /\ Top = S(0) /\ Top \in States /\ Len(stack) \in 1 .. 12
         /\ Len(stack) > 0 /\ Depth[Top + 1] + 1 >= Len(stack)
<1>1. stack \in Seq(Slots) /\ stack # <<>>
  BY DEF StackInv, StackIn
<1>2. Len(stack) \in Nat /\ Len(stack) >= 1 /\ Len(stack) - 0 = Len(stack)
  BY <1>1
<1>3. stack[Len(stack)] \in Slots
  BY <1>1, <1>2
<1>4. Top = S(0) /\ Top \in States /\ Top = stack[Len(stack)].state
  BY <1>2, <1>3 DEF Top, Last, S, Slots
<1>5. Len(stack) <= Depth[Top + 1] + 1
  BY <1>2, <1>4 DEF StackInv, Ranked
<1>6. Depth[Top + 1] \in 0 .. 11
  BY <1>4, DepthFacts
<1> DEFINE d == Depth[Top + 1]
           k == Len(stack)
<1>7. d \in 0 .. 11 /\ k \in Nat /\ k >= 1 /\ k <= d + 1
  BY <1>2, <1>5, <1>6
<1>8. Top = S(0) /\ Top \in States
  BY <1>4
<1> HIDE DEF d, k
<1>9. k \in 1 .. 12 /\ k > 0 /\ d + 1 >= k
  BY <1>7
<1> QED BY <1>8, <1>9 DEF d, k

\* What is j places below the top.
LEMMA Below ==
  ASSUME StackInv, NEW j \in Nat, j < Len(stack)
  PROVE  /\ S(j) \in States /\ V(j) \in Values /\ Meets(YYSTOS[S(j) + 1], V(j))
         /\ S(j) # 0 => j + 1 < Len(stack) /\ Edge(S(j + 1), S(j))
         /\ S(j) = 1 => j + 2 = Len(stack)
<1> DEFINE i == Len(stack) - j
<1>1. /\ stack \in Seq(Slots) /\ Len(stack) \in Nat /\ i \in 1 .. Len(stack)
      /\ stack[1].state = 0
  BY TopIs DEF StackInv, StackIn
<1>2. S(j) = stack[i].state /\ V(j) = stack[i].val
  BY DEF S, V
<1>3. S(j + 1) = stack[i - 1].state
  <2>1. Len(stack) - (j + 1) = i - 1
    BY <1>1
  <2> QED BY <2>1 DEF S
<1>4. i <= Depth[stack[i].state + 1] + 1
  BY <1>1 DEF StackInv, Ranked
<1>5. stack[i] \in Slots
  BY <1>1
<1>6. S(j) \in States /\ V(j) \in Values
  BY <1>2, <1>5 DEF Slots
<1>7. Meets(YYSTOS[S(j) + 1], V(j))
  BY <1>1, <1>2 DEF StackInv, Valued
<1>8. ASSUME S(j) # 0 PROVE j + 1 < Len(stack) /\ Edge(S(j + 1), S(j))
  <2>1. i # 1
    BY <1>1, <1>2, <1>8
  <2>2. i \in 2 .. Len(stack)
    BY <1>1, <2>1
  <2>3. Edge(stack[i - 1].state, stack[i].state)
    BY <2>2 DEF StackInv, Chained
  <2> QED BY <1>1, <1>2, <1>3, <2>2, <2>3
<1>9. ASSUME S(j) = 1 PROVE j + 2 = Len(stack)
  <2>1. Depth[2] = 1
    BY DEF Depth
  <2>2. i <= 2
    BY <1>1, <1>2, <1>4, <1>9, <2>1
  <2>3. j + 1 < Len(stack)
    BY <1>8, <1>9
  <2> QED BY <1>1, <2>2, <2>3
<1> QED BY <1>6, <1>7, <1>8, <1>9

\* What is on the stack above the place where a rule's symbol goes.
Handle(n) ==
  /\ n = 12 => S(0) = 25 /\ S(1) = 22 /\ S(2) = 20 /\ S(3) = 16 /\ S(4) = 4
  /\ n = 13 => /\ S(0) = 33 /\ S(1) = 28 /\ S(2) = 24 /\ S(3) = 22 /\ S(4) = 20
               /\ S(5) = 16 /\ S(6) = 4
  /\ n = 10 => S(0) = 27 /\ S(1) = 23 /\ S(2) = 21 /\ S(3) = 19 /\ S(4) = 5
  /\ n = 11 => /\ S(0) = 41 /\ S(1) = 31 /\ S(2) = 26 /\ S(3) = 23 /\ S(4) = 21
               /\ S(5) = 19 /\ S(6) = 5
  /\ n = 15 => S(0) = 42 /\ S(1) = 32 /\ S(2) = 28
  /\ n = 16 => S(0) = 45 /\ S(1) = 40 /\ S(2) = 30
  /\ n = 2 => S(0) = 8 /\ S(1) = 1
  /\ n = 7 => S(0) = 12 /\ S(1) = 3

LEMMA Exposed ==
  ASSUME StackInv, NEW n, NEW size, NEW y, Reduces(Top, n, size, y), n # 9
  PROVE  /\ size \in 0 .. 7 /\ size < Len(stack) /\ Handle(n)
         /\ \E g \in States : Goes(S(size), y, g)
         /\ \A j \in 0 .. size : S(j) \in States /\ Meets(YYSTOS[S(j) + 1], V(j))
<1> DEFINE k == Len(stack)
<1>0. Top = S(0) /\ k \in 1 .. 12
  BY TopIs
<1>1. /\ k > 0
      /\ S(0) # 0 => 1 < k /\ Edge(S(1), S(0))
  <2>1. k \in 1 .. 12
    BY <1>0
  <2> HIDE DEF k
  <2>2. 0 < k
    BY <2>1
  <2>3. 0 < Len(stack)
    BY <2>2 DEF k
  <2>4. S(0) # 0 => 0 + 1 < Len(stack) /\ Edge(S(0 + 1), S(0))
    BY <2>3, Below
  <2> QED BY <2>2, <2>4 DEF k
<1>2. 1 < k /\ S(1) # 0 => 2 < k /\ Edge(S(2), S(1))
  BY Below
<1>3. 2 < k /\ S(2) # 0 => 3 < k /\ Edge(S(3), S(2))
  BY Below
<1>4. 3 < k /\ S(3) # 0 => 4 < k /\ Edge(S(4), S(3))
  BY Below
<1>5. 4 < k /\ S(4) # 0 => 5 < k /\ Edge(S(5), S(4))
  BY Below
<1>6. 5 < k /\ S(5) # 0 => 6 < k /\ Edge(S(6), S(5))
  BY Below
<1>7. 6 < k /\ S(6) # 0 => 7 < k /\ Edge(S(7), S(6))
  BY Below
<1> HIDE DEF k
<1>8. /\ size \in 0 .. 7 /\ size < k /\ Handle(n)
      /\ \E g \in States : Goes(S(size), y, g)
  <2>1. CASE n \in {10, 11, 12, 13}
    BY <1>0, <1>1, <1>2, <1>3, <1>4, <1>5, <1>6, <1>7, <2>1
       DEF Reduces, Handle, Goes, Edge, States
  <2>2. CASE n \notin {10, 11, 12, 13}
    BY <1>0, <1>1, <1>2, <1>3, <2>2 DEF Reduces, Handle, Goes, Edge, States
  <2> QED BY <2>1, <2>2
<1>9. \A j \in 0 .. size : S(j) \in States /\ Meets(YYSTOS[S(j) + 1], V(j))
  <2>1. ASSUME NEW j \in 0 .. size PROVE j \in Nat /\ j < k
    BY <1>0, <1>8
  <2> QED BY <2>1, Below DEF k
<1> QED BY <1>8, <1>9 DEF k

LEMMA DollarIs ==
  ASSUME StackInv, NEW n, NEW size \in 0 .. 7, YYR2[n + 1] = size, NEW k \in 1 .. size
  PROVE  Dollar(n, k) = V(size - k)
<1>1. Len(stack) \in Nat
  BY TopIs
<1>2. Len(stack) - YYR2[n + 1] + k = Len(stack) - (size - k)
  BY <1>1
<1> QED BY <1>2 DEF Dollar, V

\* The rule that the state on the top reduces by, and where that leads.
Rule(n, size, y, g) ==
  /\ Top \notin Reading
  /\ n = YYDEFACT[Top + 1] /\ size = YYR2[n + 1] /\ y = YYR1[n + 1]
  /\ n \in 1 .. 29 /\ Reduces(Top, n, size, y)
  /\ n # 9 => /\ size \in 0 .. 7 /\ size < Len(stack) /\ Handle(n)
              /\ Goes(S(size), y, g)
              /\ \A j \in 0 .. size : S(j) \in States /\ Meets(YYSTOS[S(j) + 1], V(j))
              /\ \A k \in 1 .. size : Dollar(n, k) = V(size - k)

LEMMA RuleIs ==
  ASSUME StackInv, Top \notin Reading
  PROVE  \E n, size, y, g : Rule(n, size, y, g)
<1> DEFINE n == YYDEFACT[Top + 1]
           size == YYR2[n + 1]
           y == YYR1[n + 1]
<1>1. n \in 1 .. 29 /\ Reduces(Top, n, size, y)
  BY TopIs, ReduceIs
<1> HIDE DEF n, size, y
<1>2. CASE n = 9
  BY <1>1, <1>2 DEF Rule, n, size, y
<1>3. CASE n # 9
  <2>1. /\ size \in 0 .. 7 /\ size < Len(stack) /\ Handle(n)
        /\ \E g \in States : Goes(S(size), y, g)
        /\ \A j \in 0 .. size : S(j) \in States /\ Meets(YYSTOS[S(j) + 1], V(j))
    BY <1>1, <1>3, Exposed
  <2>2. \A k \in 1 .. size : Dollar(n, k) = V(size - k)
    BY <2>1, DollarIs DEF size
  <2>3. PICK g : Goes(S(size), y, g)
    BY <2>1
  <2>4. Rule(n, size, y, g)
    BY <1>1, <2>1, <2>2, <2>3 DEF Rule, n, size, y
  <2> QED BY <2>4
<1> QED BY <1>2, <1>3

\* The rules by their numbers.
LEMMA ReducesIs ==
  ASSUME NEW s, NEW n, NEW size, NEW y, Reduces(s, n, size, y)
  PROVE  /\ n = 10 => s = 27 /\ size = 5 /\ y = 29
         /\ n = 11 => s = 41 /\ size = 7 /\ y = 29
         /\ n = 12 => s = 25 /\ size = 5 /\ y = 30
         /\ n = 13 => s = 33 /\ size = 7 /\ y = 30
         /\ n = 14 => s = 29 /\ size = 1 /\ y = 31
         /\ n = 15 => s = 42 /\ size = 3 /\ y = 31
         /\ n = 16 => s = 45 /\ size = 3 /\ y = 32
         /\ n = 17 => s = 17 /\ size = 1 /\ y = 33
         /\ n = 18 => s = 14 /\ size = 1 /\ y = 33
         /\ n = 19 => s = 13 /\ size = 1 /\ y = 33
         /\ n = 20 => s = 15 /\ size = 1 /\ y = 34
         /\ n = 21 => s = 43 /\ size = 1 /\ y = 35
         /\ n = 22 => s = 44 /\ size = 1 /\ y = 35
         /\ n = 23 => s = 18 /\ size = 1 /\ y = 36
         /\ n \in 24 .. 29 => s \in 34 .. 39 /\ size = 1 /\ y = 37
<1>1. CASE n = 14
  BY <1>1 DEF Reduces
<1>2. CASE n = 15
  BY <1>2 DEF Reduces
<1>3. CASE n = 16
  BY <1>3 DEF Reduces
<1>4. CASE n = 17
  BY <1>4 DEF Reduces
<1>5. CASE n = 18
  BY <1>5 DEF Reduces
<1>6. CASE n = 19
  BY <1>6 DEF Reduces
<1>7. CASE n = 20
  BY <1>7 DEF Reduces
<1>8. CASE n \in {21, 22}
  BY <1>8 DEF Reduces
<1>9. CASE n = 23
  BY <1>9 DEF Reduces
<1>10. CASE n \in 24 .. 29
  BY <1>10 DEF Reduces
<1>11. CASE n = 10
  BY <1>11 DEF Reduces
<1>12. CASE n = 11
  BY <1>12 DEF Reduces
<1>13. CASE n = 12
  BY <1>13 DEF Reduces
<1>14. CASE n = 13
  BY <1>14 DEF Reduces
<1> QED BY <1>1, <1>2, <1>3, <1>4, <1>5, <1>6, <1>7, <1>8, <1>9, <1>10, <1>11, <1>12,
           <1>13, <1>14

\* The four rules that are a command.
LEMMA CommandIs ==
  ASSUME StackInv, NEW n, NEW size, NEW y, NEW g, Rule(n, size, y, g)
  PROVE  /\ n = 10 => /\ size = 5 /\ y = 29 /\ Dollar(n, 2) = V(3) /\ Dollar(n, 4) = V(1)
                      /\ S(0) = 27 /\ S(1) = 23 /\ S(2) = 21 /\ S(3) = 19 /\ S(4) = 5
         /\ n = 11 => /\ size = 7 /\ y = 29 /\ Dollar(n, 2) = V(5) /\ Dollar(n, 4) = V(3)
                      /\ S(0) = 41 /\ S(1) = 31 /\ S(2) = 26 /\ S(3) = 23 /\ S(4) = 21
                      /\ S(5) = 19 /\ S(6) = 5
         /\ n = 12 => /\ size = 5 /\ y = 30 /\ Dollar(n, 2) = V(3) /\ Dollar(n, 4) = V(1)
                      /\ S(0) = 25 /\ S(1) = 22 /\ S(2) = 20 /\ S(3) = 16 /\ S(4) = 4
         /\ n = 13 => /\ size = 7 /\ y = 30 /\ Dollar(n, 2) = V(5) /\ Dollar(n, 4) = V(3)
                      /\ Dollar(n, 6) = V(1)
                      /\ S(0) = 33 /\ S(1) = 28 /\ S(2) = 24 /\ S(3) = 22 /\ S(4) = 20
                      /\ S(5) = 16 /\ S(6) = 4
<1>1. /\ Reduces(Top, n, size, y)
      /\ n # 9 => Handle(n) /\ \A k \in 1 .. size : Dollar(n, k) = V(size - k)
  BY DEF Rule
<1>2. CASE n = 10
  <2>1. size = 5 /\ y = 29
    BY <1>1, <1>2, ReducesIs
  <2>2. Dollar(n, 2) = V(3) /\ Dollar(n, 4) = V(1)
    BY <1>1, <1>2, <2>1
  <2> QED BY <1>1, <1>2, <2>1, <2>2 DEF Handle
<1>3. CASE n = 11
  <2>1. size = 7 /\ y = 29
    BY <1>1, <1>3, ReducesIs
  <2>2. Dollar(n, 2) = V(5) /\ Dollar(n, 4) = V(3)
    BY <1>1, <1>3, <2>1
  <2> QED BY <1>1, <1>3, <2>1, <2>2 DEF Handle
<1>4. CASE n = 12
  <2>1. size = 5 /\ y = 30
    BY <1>1, <1>4, ReducesIs
  <2>2. Dollar(n, 2) = V(3) /\ Dollar(n, 4) = V(1)
    BY <1>1, <1>4, <2>1
  <2> QED BY <1>1, <1>4, <2>1, <2>2 DEF Handle
<1>5. CASE n = 13
  <2>1. size = 7 /\ y = 30
    BY <1>1, <1>5, ReducesIs
  <2>2. Dollar(n, 2) = V(5) /\ Dollar(n, 4) = V(3) /\ Dollar(n, 6) = V(1)
    BY <1>1, <1>5, <2>1
  <2> QED BY <1>1, <1>5, <2>1, <2>2 DEF Handle
<1> QED BY <1>2, <1>3, <1>4, <1>5

\* What $$ is.
LEMMA ValueMeets ==
  ASSUME StackInv, NEW n, NEW size, NEW y, NEW g, Rule(n, size, y, g), n # 9
  PROVE  RuleValue(n) \in Values /\ Meets(y, RuleValue(n))
<1>1. /\ n \in 1 .. 29 /\ Reduces(Top, n, size, y) /\ size \in 0 .. 7 /\ Handle(n)
      /\ Top = S(0) /\ size < Len(stack)
      /\ \A j \in 0 .. size : Meets(YYSTOS[S(j) + 1], V(j))
      /\ \A k \in 1 .. size : Dollar(n, k) = V(size - k)
  BY TopIs DEF Rule
<1>2. \A k \in 1 .. size : V(size - k) \in Values
  <2> SUFFICES ASSUME NEW k \in 1 .. size
               PROVE  size - k \in Nat /\ size - k < Len(stack)
    BY Below
  <2>1. Len(stack) \in Nat
    BY TopIs
  <2> QED BY <1>1, <2>1
<1>3. Junk = -1
  BY DEF Junk
<1>4. CASE n \in {14, 15}
  <2>1. CASE n = 14
    <3>0. S(0) = 29 /\ y = 31 /\ size = 1
      BY <1>1, <2>1 DEF Reduces
    <3>1. Meets(32, V(0))
      <4>1. YYSTOS[S(0) + 1] = 32
        BY <3>0 DEF YYSTOS
      <4> QED BY <1>1, <3>0, <4>1
    <3>2. V(0) \in Conditions /\ Dollar(n, 1) = V(0)
      BY <1>1, <3>0, <3>1 DEF Meets
    <3>3. RuleValue(n) = [conds |-> <<V(0)>>]
      BY <2>1, <3>2 DEF RuleValue, CondsValue, YYR2
    <3>4. <<V(0)>> \in Seq(Conditions) /\ <<V(0)>> # <<>>
      BY <3>2
    <3> QED BY <3>0, <3>3, <3>4 DEF Meets, Values
  <2>2. CASE n = 15
    <3>0. S(0) = 42 /\ S(2) = 28 /\ y = 31 /\ size = 3
      BY <1>1, <2>2 DEF Reduces, Handle
    <3>1. Meets(32, V(0)) /\ Meets(31, V(2))
      <4>1. YYSTOS[S(0) + 1] = 32 /\ YYSTOS[S(2) + 1] = 31
        BY <3>0 DEF YYSTOS
      <4> QED BY <1>1, <3>0, <4>1
    <3>2. /\ V(0) \in Conditions /\ V(2).conds \in Seq(Conditions)
          /\ Dollar(n, 3) = V(0) /\ Dollar(n, 1) = V(2)
      BY <1>1, <3>0, <3>1 DEF Meets
    <3>3. RuleValue(n) = [conds |-> Append(V(2).conds, V(0))]
      BY <2>2, <3>2, SMTT(40) DEF RuleValue, CondsValue, YYR2
    <3>4. Append(V(2).conds, V(0)) \in Seq(Conditions) /\ Append(V(2).conds, V(0)) # <<>>
      BY <3>2
    <3> QED BY <3>0, <3>3, <3>4 DEF Meets, Values
  <2> QED BY <1>4, <2>1, <2>2
<1>5. CASE n = 16
  <2>0. S(0) = 45 /\ S(1) = 40 /\ S(2) = 30 /\ y = 32 /\ size = 3
    BY <1>1, <1>5 DEF Reduces, Handle
  <2>1. Meets(35, V(0)) /\ Meets(37, V(1)) /\ Meets(34, V(2))
    <3>1. YYSTOS[S(0) + 1] = 35 /\ YYSTOS[S(1) + 1] = 37 /\ YYSTOS[S(2) + 1] = 34
      BY <2>0 DEF YYSTOS
    <3> QED BY <1>1, <2>0, <3>1
  <2>2. /\ V(0) \in Strings /\ V(1).integer \in 0 .. 5 /\ V(2).integer \in {1, 2, Junk}
        /\ Dollar(n, 1) = V(2) /\ Dollar(n, 2) = V(1) /\ Dollar(n, 3) = V(0)
    BY <1>1, <2>0, <2>1 DEF Meets
  <2>3. RuleValue(n) = [attr |-> V(2).integer, comp |-> V(1).integer, value |-> V(0)]
    BY <1>5, <2>2 DEF RuleValue, YYR2
  <2>4. RuleValue(n) \in Conditions
    BY <2>2, <2>3 DEF Conditions
  <2> QED BY <2>0, <2>4 DEF Meets, Values
<1>6. CASE n \in 18 .. 20 \/ n \in 24 .. 29
  <2>1. \A i \in -1 .. 5 : IntVal(i) \in Integer /\ IntVal(i).integer = i
    BY DEF IntVal, Integer
  <2>2. CASE n \in {18, 19}
    <3>1. y = 33
      BY <1>1, <2>2 DEF Reduces
    <3>a. n = 18 => RuleValue(n) = AttrValue(n)
      BY DEF RuleValue, YYR2
    <3>b. n = 19 => RuleValue(n) = AttrValue(n)
      BY DEF RuleValue, YYR2
    <3>2. AttrValue(n) \in {IntVal(3), IntVal(4)}
      BY <2>2 DEF AttrValue
    <3> QED BY <2>1, <2>2, <3>1, <3>a, <3>b, <3>2 DEF Meets, Values
  <2>3. CASE n = 20
    <3>1. y = 34 /\ RuleValue(n) = AttrValue(n)
      BY <1>1, <2>3 DEF Reduces, RuleValue, YYR2
    <3>2. AttrValue(n) \in {IntVal(1), IntVal(2), IntVal(Junk)}
      BY <2>3 DEF AttrValue
    <3> QED BY <1>3, <2>1, <3>1, <3>2 DEF Meets, Values
  <2>4. CASE n \in 24 .. 29
    <3>1. y = 37 /\ n - 24 \in 0 .. 5
      BY <1>1, <2>4 DEF Reduces
    <3>2. RuleValue(n) = IntVal(n - 24)
      BY <2>4 DEF RuleValue, YYR2
    <3> QED BY <2>1, <3>1, <3>2 DEF Meets, Values
  <2> QED BY <1>6, <2>2, <2>3, <2>4
<1>7. CASE n \in {2, 3, 4, 5, 6, 7, 8, 10, 11, 12, 13}
  <2>1. y \in {26, 27, 29, 30} /\ size \in 0 .. 7 /\ (size = 0 <=> n = 3)
    BY <1>1, <1>7 DEF Reduces
  <2>2. RuleValue(n) = Garbage \/ (RuleValue(n) = Dollar(n, 1) /\ size # 0)
    BY <1>7, <2>1 DEF RuleValue, YYR2
  <2>3. RuleValue(n) \in Values
    <3>1. size # 0 => 1 \in 1 .. size
      BY <2>1
    <3> QED BY <1>1, <1>2, <2>2, <3>1 DEF Values
  <2> QED BY <2>1, <2>3 DEF Meets
<1>8. CASE n \in {17, 21, 22, 23}
  <2>1. /\ size = 1 /\ RuleValue(n) = Dollar(n, 1) /\ Dollar(n, 1) = V(0) /\ V(0) \in Values
        /\ Meets(YYSTOS[S(0) + 1], V(0))
    <3>1. size = 1
      BY <1>1, <1>8 DEF Reduces
    <3>2. RuleValue(n) = Dollar(n, 1)
      BY <1>8 DEF RuleValue, YYR2
    <3> QED BY <1>1, <1>2, <3>1, <3>2
  <2>2. \/ S(0) = 17 /\ y = 33
        \/ S(0) \in {43, 44} /\ y = 35
        \/ S(0) = 18 /\ y = 36
    BY <1>1, <1>8 DEF Reduces
  <2>3. \/ y = 33 /\ YYSTOS[S(0) + 1] = 34
        \/ y = 35 /\ YYSTOS[S(0) + 1] \in {16, 17}
        \/ y = 36 /\ YYSTOS[S(0) + 1] = 18
    BY <2>2 DEF YYSTOS
  <2> QED BY <2>1, <2>3 DEF Meets
<1>9. n \notin {1, 9}
  <2>1. S(0) # 2
    <3>1. S(0) # 0 => Edge(S(1), S(0))
      <4>1. 0 \in Nat /\ 0 < Len(stack)
        BY TopIs
      <4>2. S(0) # 0 => Edge(S(0 + 1), S(0))
        BY <4>1, Below
      <4> QED BY <4>2
    <3> QED BY <3>1 DEF Edge
  <2> QED BY <1>1, <2>1 DEF Reduces
<1> QED BY <1>1, <1>4, <1>5, <1>6, <1>7, <1>8, <1>9
-----------------------------------------------------------------------------
(* The type of the parser's state.                                         *)

LEMMA TypedFacts ==
  /\ Typed \subseteq (0 .. 24) \ {1, 2}
  /\ Texted = {16, 17, 18}
  /\ YYEMPTY = -2
BY SqlParserAssumption DEF Typed, Texted, T, YYEMPTY

LEMMA LeastNat ==
  ASSUME NEW N, N \subseteq Nat, N # {}
  PROVE  \E x \in N : \A y \in N : x <= y
<1> DEFINE R == {ss \in Nat \X Nat : ss[1] < ss[2]}
<1>1. IsWellFoundedOn(R, Nat)
  BY NatLessThanWellFounded DEF OpToRel
<1>2. \A x, y \in N : <<y, x>> \in R <=> y < x
  OBVIOUS
<1> HIDE DEF R
<1>3. PICK x \in N : \A y \in N : ~ (<<y, x>> \in R)
  BY <1>1, WFMin
<1>4. \A y \in N : ~(y < x)
  BY <1>2, <1>3
<1> QED BY <1>4

LEMMA FreshIs ==
  ASSUME heap \in SUBSET Nat, IsFiniteSet(heap)
  PROVE  FreshString \in Nat \ heap
<1> DEFINE c == Cardinality(heap)
           F == {i \in 0 .. c : i \notin heap}
<1>1. c \in Nat
  BY FS_CardinalityType
<1>2. F # {}
  <2> SUFFICES ASSUME 0 .. c \subseteq heap PROVE FALSE
    OBVIOUS
  <2>1. Cardinality(0 .. c) <= c
    BY FS_Subset
  <2>2. Cardinality(0 .. c) = c + 1
    <3>1. 0 \in Int /\ c \in Int /\ ~(0 > c)
      BY <1>1
    <3> HIDE DEF c
    <3>2. Cardinality(0 .. c) = IF 0 > c THEN 0 ELSE c - 0 + 1
      BY <3>1, FS_Interval
    <3> QED BY <3>1, <3>2
  <2> QED BY <1>1, <2>1, <2>2
<1>3. PICK x \in F : \A y \in F : x <= y
  <2>1. F \subseteq Nat
    OBVIOUS
  <2> QED BY <1>2, <2>1, LeastNat
<1>4. Min(F) \in F
  BY <1>3 DEF Min
<1> QED BY <1>4 DEF FreshString

\* The only state that shifts the error token is the one below the commands.
LEMMA CatchIs ==
  ASSUME StackInv, Catchers # {}
  PROVE  /\ Max(Catchers) = 2 /\ 2 \in 1 .. Len(stack) /\ stack[2].state = 1
         /\ ShiftTo(stack[2].state, T.ERROR) = 3
<1>1. ASSUME NEW k \in Catchers
      PROVE  k = 2 /\ k \in 1 .. Len(stack) /\ stack[k].state = 1 /\ ShiftTo(1, T.ERROR) = 3
  <2> DEFINE p == stack[k].state
  <2>1. /\ k \in 1 .. Len(stack) /\ Shifts(p, 1) /\ stack \in Seq(Slots) /\ stack[1].state = 0
        /\ T.ERROR = 1
    BY DEF Catchers, StackInv, StackIn, T
  <2>2. p \in States
    <3>1. stack[k] \in Slots
      BY <2>1
    <3> QED BY <3>1 DEF Slots
  <2>3. p \in Reading
    BY <2>1, <2>2, PactIs DEF Shifts
  <2>4. Moves(p, 1, ShiftTo(p, 1))
    <3>1. 1 \in 0 .. 24
      OBVIOUS
    <3> HIDE DEF p
    <3> QED BY <2>1, <2>3, <3>1, ShiftIs
  <2>5. p = 1 /\ ShiftTo(p, 1) = 3
    BY <2>4 DEF Moves
  <2>6. k <= Depth[2] + 1
    BY <2>1, <2>5 DEF StackInv, Ranked
  <2>7. Depth[2] = 1
    BY DEF Depth
  <2> QED BY <2>1, <2>5, <2>6, <2>7
<1>2. Catchers = {2}
  BY <1>1
<1>3. Max(Catchers) = 2
  BY <1>2 DEF Max
<1> QED BY <1>1, <1>2, <1>3

LEMMA ErrorIs ==
  ASSUME TypeInv, ErrorNow
  PROVE  Running /\ Top \in Reading /\ yychar # YYEMPTY /\ ~Shifts(Top, yychar)
<1>1. Top \in Reading
  <2> SUFFICES ASSUME Top \notin Reading PROVE FALSE
    OBVIOUS
  <2>1. Top \in States
    BY TopIs DEF TypeInv
  <2>2. YYDEFACT[Top + 1] \in 1 .. 29
    BY <2>1, ReduceIs
  <2> QED BY <2>2 DEF ErrorNow
<1>2. YYPACT[Top + 1] # YYPACT_NINF
  BY <1>1, TopIs, PactIs DEF TypeInv
<1> QED BY <1>1, <1>2 DEF ErrorNow, DefaultsNow, Decided

LEMMA CaughtIs ==
  ASSUME TypeInv, ErrorNow, Catchers # {}, Caught(Max(Catchers))
  PROVE  /\ Pushed(2, 3, yylval) /\ stack[2].state = 1 /\ yyerrstatus' = 3
         /\ StackInv' /\ Top' = 3 /\ StatusInv'
<1>1. /\ Max(Catchers) = 2 /\ 2 \in 1 .. Len(stack) /\ stack[2].state = 1
      /\ ShiftTo(stack[2].state, T.ERROR) = 3
  BY CatchIs DEF TypeInv
<1>2. /\ stack' = Append(SubSeq(stack, 1, 2), [state |-> 3, val |-> yylval])
      /\ yyerrstatus' = 3
  BY <1>1 DEF Caught
<1>3. yylval \in Values /\ 3 \in States
  BY DEF TypeInv, ScanInv, Values, States
<1>4. Pushed(2, 3, yylval)
  BY <1>1, <1>2, <1>3, Push DEF TypeInv, StackInv
<1>5. Edge(stack[2].state, 3) /\ Meets(YYSTOS[3 + 1], yylval)
  <2>1. YYSTOS[3 + 1] = 1
    BY DEF YYSTOS
  <2> QED BY <1>1, <2>1 DEF Edge, Meets
<1>6. StackInv' /\ Top' = 3
  BY <1>4, <1>5, PushKeeps DEF TypeInv
<1> QED BY <1>1, <1>2, <1>4, <1>6 DEF StatusInv

LEMMA ReadKeeps ==
  ASSUME TypeInv, NEW type \in Typed, NEW x \in Texts(type),
         ReadToken([type |-> type, text |-> x])
  PROVE  TypeInv'
<1>1. FreshString \in Nat \ heap
  BY FreshIs DEF TypeInv, HeapIn
<1>2. StackInv' /\ StatusInv' /\ Top' = Top
  BY DEF ReadToken, TypeInv, StackInv, StackIn, Chained, Ranked, Valued, StatusInv, Top
<1>3. Top \in Reading
  BY TopIs, PactIs DEF ReadToken, Wants, TypeInv
<1>4. type \in Texted => x \in Names \cup Literals
  BY DEF Texts, Texted, T
<1>5. CASE type \in Texted
  <2>1. yylval' = [string |-> FreshString, text |-> x] /\ heap' = heap \cup {FreshString}
    BY <1>5 DEF ReadToken, Texted, StrVal
  <2>2. yylval' \in Strings
    BY <1>1, <1>4, <1>5, <2>1 DEF Strings
  <2>3. heap' \in SUBSET Nat /\ IsFiniteSet(heap')
    BY <1>1, <2>1, FS_AddElement DEF TypeInv, HeapIn
  <2> QED BY <1>2, <1>3, <2>2, <2>3 DEF TypeInv, ScanInv, HeapIn, ReadToken
<1>6. CASE type \notin Texted
  <2>1. UNCHANGED <<yylval, heap>>
    BY <1>6 DEF ReadToken, Texted
  <2> QED BY <1>2, <1>3, <1>6, <2>1 DEF TypeInv, ScanInv, HeapIn, ReadToken
<1> QED BY <1>5, <1>6

\* A token is shifted.
LEMMA ShiftFacts ==
  ASSUME TypeInv, Shift
  PROVE  \E g : /\ Top \in Reading /\ yychar \in (3 .. 24) /\ yychar \in Typed
                /\ Moves(Top, yychar, g) /\ g \in States /\ Edge(Top, g)
                /\ YYSTOS[g + 1] = yychar
                /\ Pushed(Len(stack), g, yylval) /\ StackInv' /\ Top' = g
                /\ yychar' = YYEMPTY
                /\ yyerrstatus' = IF yyerrstatus > 0 THEN yyerrstatus - 1 ELSE 0
<1> DEFINE g == ShiftTo(Top, yychar)
<1>1. yychar \in Typed /\ yychar \in 0 .. 24 /\ Top \in Reading /\ Shifts(Top, yychar)
      /\ g # 2
  BY TypedFacts DEF TypeInv, ScanInv, Shift, ShiftsNow, Decided, YYFINAL
<1>2. Moves(Top, yychar, g)
  <2> HIDE DEF g
  <2> QED BY <1>1, ShiftIs DEF g
<1>3. yychar # 0
  BY <1>1, <1>2 DEF Moves
<1>4. yychar \in 3 .. 24
  BY <1>1, <1>3, TypedFacts
<1>5. g \in States /\ Edge(Top, g) /\ YYSTOS[g + 1] = yychar
  BY <1>1, <1>2, <1>3, MoveFacts
<1>6. /\ stack' = Append(stack, [state |-> g, val |-> yylval])
      /\ yyerrstatus' = IF yyerrstatus > 0 THEN yyerrstatus - 1 ELSE 0
      /\ yychar' = YYEMPTY
  BY <1>3 DEF Shift, T
<1> HIDE DEF g
<1>7. yylval \in Values
  BY DEF TypeInv, ScanInv, Values
<1>8. Len(stack) \in 1 .. Len(stack) /\ stack \in Seq(Slots)
      /\ SubSeq(stack, 1, Len(stack)) = stack
  <2>1. stack \in Seq(Slots) /\ Len(stack) \in Nat /\ Len(stack) > 0
    BY TopIs DEF TypeInv, StackInv, StackIn
  <2> QED BY <2>1
<1>9. Pushed(Len(stack), g, yylval)
  BY <1>5, <1>6, <1>7, <1>8, Push DEF TypeInv, StackInv
<1>10. Edge(stack[Len(stack)].state, g)
  BY <1>5 DEF Top, Last
<1>11. Meets(yychar, yylval)
  BY <1>4, TypedFacts DEF Meets, TypeInv, ScanInv
<1>12. StackInv' /\ Top' = g
  BY <1>5, <1>9, <1>10, <1>11, PushKeeps DEF TypeInv
<1> QED BY <1>1, <1>2, <1>4, <1>5, <1>6, <1>9, <1>12

LEMMA ShiftKeeps ==
  ASSUME TypeInv, Shift
  PROVE  TypeInv'
<1>1. PICK g : /\ yychar \in 3 .. 24 /\ Moves(Top, yychar, g) /\ StackInv' /\ Top' = g
               /\ yychar' = YYEMPTY
               /\ yyerrstatus' = IF yyerrstatus > 0 THEN yyerrstatus - 1 ELSE 0
  BY ShiftFacts
<1>2. g # 3
  BY <1>1 DEF Moves
<1>3. ScanInv'
  BY <1>1, TypedFacts DEF TypeInv, ScanInv, Shift
<1>4. StatusInv'
  BY <1>1, <1>2 DEF TypeInv, StatusInv
<1>5. HeapIn'
  BY DEF TypeInv, HeapIn, Shift
<1> QED BY <1>1, <1>3, <1>4, <1>5 DEF TypeInv

\* A rule is reduced.
LEMMA ReduceFacts ==
  ASSUME TypeInv, Reduce
  PROVE  \E n, size, y, g :
           /\ Rule(n, size, y, g) /\ yychar = YYEMPTY /\ yychar' = yychar
           /\ yyerrstatus' = yyerrstatus
           /\ heap' = heap \ ToSet(RuleFrees(n))
           /\ wild' = (wild \/ ~IsInjective(RuleFrees(n))
                            \/ ToSet(RuleFrees(n)) \ heap # {})
           /\ n = QuitRule => result' = "0" /\ UNCHANGED <<stack, yylval, history>>
           /\ n # QuitRule =>
                /\ Pushed(Len(stack) - size, g, RuleValue(n)) /\ g \in States
                /\ YYSTOS[g + 1] = y /\ Edge(stack[Len(stack) - size].state, g)
                /\ StackInv' /\ Top' = g
                /\ \/ /\ n \in PromptRules
                      /\ line' = <<>> /\ out' = <<>> /\ began' = yyerrstatus
                      /\ yylval' = Garbage
                   \/ /\ n \notin PromptRules
                      /\ out' = out \o RuleOutput(n)
                      /\ UNCHANGED <<line, began, yylval>>
                /\ UNCHANGED result
<1>1. Top \notin Reading
  BY DefactIs DEF Reduce
<1>2. PICK n, size, y, g : Rule(n, size, y, g)
  BY <1>1, RuleIs DEF TypeInv
<1>3. n = YYDEFACT[Top + 1] /\ size = YYR2[n + 1] /\ y = YYR1[n + 1] /\ QuitRule = 9
  BY <1>2 DEF Rule, QuitRule
<1>4. yychar = YYEMPTY
  BY <1>1 DEF TypeInv, ScanInv
<1>5. /\ yychar' = yychar /\ yyerrstatus' = yyerrstatus
      /\ heap' = heap \ ToSet(RuleFrees(n))
      /\ wild' = (wild \/ ~IsInjective(RuleFrees(n))
                       \/ ToSet(RuleFrees(n)) \ heap # {})
      /\ n = QuitRule => result' = "0" /\ UNCHANGED <<stack, yylval, history>>
  BY <1>3 DEF Reduce
<1>6. ASSUME n # QuitRule
      PROVE  /\ Pushed(Len(stack) - size, g, RuleValue(n)) /\ g \in States
             /\ YYSTOS[g + 1] = y /\ Edge(stack[Len(stack) - size].state, g)
             /\ StackInv' /\ Top' = g
             /\ \/ /\ n \in PromptRules
                   /\ line' = <<>> /\ out' = <<>> /\ began' = yyerrstatus
                   /\ yylval' = Garbage
                \/ /\ n \notin PromptRules
                   /\ out' = out \o RuleOutput(n)
                   /\ UNCHANGED <<line, began, yylval>>
             /\ UNCHANGED result
  <2> DEFINE m == Len(stack) - size
             b == SubSeq(stack, 1, m)
  <2>1. size \in 0 .. 7 /\ size < Len(stack) /\ Goes(S(size), y, g)
    BY <1>2, <1>3, <1>6 DEF Rule
  <2>2. stack \in Seq(Slots) /\ Len(stack) \in Nat /\ StackIn
    BY TopIs DEF TypeInv, StackInv, StackIn
  <2>3. m \in 1 .. Len(stack)
    BY <2>1, <2>2
  <2>4. Last(b).state = S(size)
    <3>1. Len(b) = m /\ b[m] = stack[m]
      BY <2>2, <2>3
    <3> QED BY <3>1 DEF Last, S
  <2>5. GoTo(S(size), y) = g /\ Edge(S(size), g) /\ g \in States /\ YYSTOS[g + 1] = y
    BY <2>1, GotoIs
  <2>6. /\ stack' = Append(b, [state |-> GoTo(Last(b).state, y), val |-> RuleValue(n)])
        /\ \/ /\ n \in PromptRules
              /\ line' = <<>> /\ out' = <<>> /\ began' = yyerrstatus
              /\ yylval' = Garbage
           \/ /\ n \notin PromptRules
              /\ out' = out \o RuleOutput(n)
              /\ UNCHANGED <<line, began, yylval>>
        /\ UNCHANGED result
    BY <1>3, <1>6 DEF Reduce
  <2>7. stack' = Append(SubSeq(stack, 1, m), [state |-> g, val |-> RuleValue(n)])
    BY <2>4, <2>5, <2>6
  <2>8. RuleValue(n) \in Values /\ Meets(y, RuleValue(n))
    BY <1>2, <1>3, <1>6, ValueMeets DEF TypeInv
  <2> HIDE DEF m
  <2>9. Pushed(m, g, RuleValue(n))
    BY <2>2, <2>3, <2>5, <2>7, <2>8, Push
  <2>10. Edge(stack[m].state, g)
    BY <2>5 DEF S, m
  <2>11. StackInv' /\ Top' = g
    BY <2>5, <2>8, <2>9, <2>10, PushKeeps DEF TypeInv
  <2> QED BY <2>5, <2>6, <2>9, <2>10, <2>11 DEF m
<1> QED BY <1>2, <1>4, <1>5, <1>6

LEMMA ReduceKeeps ==
  ASSUME TypeInv, Reduce
  PROVE  TypeInv'
<1>1. PICK n, size, y, g :
           /\ Rule(n, size, y, g) /\ yychar = YYEMPTY /\ yychar' = yychar
           /\ yyerrstatus' = yyerrstatus
           /\ heap' = heap \ ToSet(RuleFrees(n))
           /\ wild' = (wild \/ ~IsInjective(RuleFrees(n))
                            \/ ToSet(RuleFrees(n)) \ heap # {})
           /\ n = QuitRule => result' = "0" /\ UNCHANGED <<stack, yylval, history>>
           /\ n # QuitRule =>
                /\ StackInv' /\ Top' = g
                /\ yylval' = Garbage \/ yylval' = yylval
                /\ UNCHANGED result
  BY ReduceFacts
<1>2. HeapIn'
  <2>1. heap' \subseteq heap
    BY <1>1
  <2>2. IsFiniteSet(heap')
    BY <2>1, FS_Subset DEF TypeInv, HeapIn
  <2>3. wild' \in BOOLEAN
    BY <1>1
  <2> QED BY <1>1, <2>1, <2>2, <2>3 DEF TypeInv, HeapIn
<1>3. CASE n = QuitRule
  <2>1. UNCHANGED <<stack, yychar, yylval, yyerrstatus>>
    BY <1>1, <1>3
  <2> QED BY <1>2, <2>1 DEF TypeInv, StackInv, StackIn, Chained, Ranked, Valued, ScanInv,
              StatusInv, Top
<1>4. CASE n # QuitRule
  <2>1. Top \notin Reading /\ Top # 3 /\ g # 3
    <3>1. Top \notin Reading /\ Goes(S(size), y, g)
      BY <1>1, <1>4 DEF Rule, QuitRule
    <3>2. Top # 3
      BY <3>1 DEF Reading
    <3>3. g # 3
      BY <3>1 DEF Goes
    <3> QED BY <3>1, <3>2, <3>3
  <2>2. ScanInv'
    BY <1>1, <1>4, TypedFacts DEF TypeInv, ScanInv
  <2>3. StatusInv'
    BY <1>1, <1>4, <2>1 DEF TypeInv, StatusInv
  <2> QED BY <1>1, <1>2, <1>4, <2>2, <2>3 DEF TypeInv
<1> QED BY <1>3, <1>4

LEMMA ErrorKeeps ==
  ASSUME TypeInv, Recover \/ Discard
  PROVE  TypeInv'
<1>1. ErrorNow /\ Catchers # {} /\ Caught(Max(Catchers))
  BY DEF Recover, Discard
<1>2. StackInv' /\ Top' = 3 /\ StatusInv'
  BY <1>1, CaughtIs
<1>3. heap' \subseteq heap /\ UNCHANGED <<yylval, wild, result>>
      /\ (yychar' = yychar \/ yychar' = YYEMPTY)
  BY DEF Recover, Discard
<1>4. HeapIn'
  <2>1. IsFiniteSet(heap')
    BY <1>3, FS_Subset DEF TypeInv, HeapIn
  <2> QED BY <1>3, <2>1 DEF TypeInv, HeapIn
<1>5. ScanInv'
  BY <1>2, <1>3, TypedFacts DEF TypeInv, ScanInv, Reading
<1> QED BY <1>2, <1>4, <1>5 DEF TypeInv

LEMMA StopKeeps ==
  ASSUME TypeInv, Accept \/ Abort
  PROVE  TypeInv'
<1>1. UNCHANGED <<stack, yychar, yylval, yyerrstatus, heap, wild>> /\ result' \in {"0", "1"}
  BY DEF Accept, Abort
<1> QED BY <1>1 DEF TypeInv, StackInv, StackIn, Chained, Ranked, Valued, ScanInv, StatusInv,
            HeapIn, Top

LEMMA TypeInit ==
  Init => TypeInv
<1> SUFFICES ASSUME Init PROVE TypeInv
  OBVIOUS
<1> DEFINE x == [state |-> 0, val |-> Garbage]
<1>1. stack = <<x>> /\ x.state = 0 /\ x.val = Garbage /\ x \in Slots
  BY DEF Init, Slots, States, Values
<1> HIDE DEF x
<1>2. stack \in Seq(Slots) /\ Len(stack) = 1 /\ stack[1] = x /\ stack # <<>>
  BY <1>1
<1>3. Depth[0 + 1] = 0 /\ YYSTOS[0 + 1] = 0
  BY DEF Depth, YYSTOS
<1>4. StackIn /\ Chained /\ Ranked
  BY <1>1, <1>2, <1>3 DEF StackIn, Chained, Ranked
<1>5. Valued
  BY <1>1, <1>2, <1>3 DEF Valued, Meets
<1>6. Top = 0
  BY <1>1, <1>2 DEF Top, Last
<1>7. StatusInv /\ ScanInv
  BY <1>6, TypedFacts DEF Init, StatusInv, ScanInv
<1>8. HeapIn
  BY FS_EmptySet DEF Init, HeapIn
<1> QED BY <1>4, <1>5, <1>7, <1>8 DEF TypeInv, StackInv

LEMMA TypeStep ==
  TypeInv /\ [Next]_vars => TypeInv'
<1> SUFFICES ASSUME TypeInv, [Next]_vars PROVE TypeInv'
  OBVIOUS
<1>1. CASE \E type \in Typed : \E x \in Texts(type) : ReadToken([type |-> type, text |-> x])
  BY <1>1, ReadKeeps
<1>2. CASE Drive
  BY <1>2, ReduceKeeps, ShiftKeeps, ErrorKeeps, StopKeeps DEF Drive
<1>3. CASE UNCHANGED vars
  BY <1>3 DEF vars, TypeInv, StackInv, StackIn, Chained, Ranked, Valued, ScanInv, StatusInv,
              HeapIn, Top
<1> QED BY <1>1, <1>2, <1>3 DEF Next

\* In every state that is reached the stack is a path of the automaton, short
\* enough for its states, with values that their symbols have.
THEOREM ParserInvariant == Spec => []TypeInv
BY TypeInit, TypeStep, PTL DEF Spec

\* What the symbols' values meet is their type.
LEMMA MeetsType ==
  ASSUME NEW x \in 0 .. 37, NEW v, Meets(x, v)
  PROVE  HasType(x, v)
<1>1. CASE x \in {16, 17, 18, 35, 36}
  BY <1>1 DEF Meets, HasType, T
<1>2. CASE x \in {33, 34, 37}
  BY <1>2 DEF Meets, HasType, T
<1>3. CASE x = 32
  BY <1>3 DEF Meets, HasType, T, Conditions, IsCondition
<1>4. CASE x = 31
  <2>1. v.conds \in Seq(Conditions)
    BY <1>4 DEF Meets
  <2>2. ASSUME NEW i \in DOMAIN v.conds PROVE IsCondition(v.conds[i])
    <3>1. v.conds[i] \in Conditions
      BY <2>1
    <3> QED BY <3>1 DEF Conditions, IsCondition
  <2> QED BY <1>4, <2>2 DEF HasType, T
<1>5. CASE x \notin {16, 17, 18, 31, 32, 33, 34, 35, 36, 37}
  BY <1>5 DEF HasType, T
<1> QED BY <1>1, <1>2, <1>3, <1>4, <1>5

\* The union on the value stack is only read as what was written, for every
\* text and every line: YYSTYPE has no tag, the state of the slot is its tag.
THEOREM TypeCorrect == Spec => []TypeOK
<1>1. TypeInv => TypeOK
  <2> SUFFICES ASSUME TypeInv PROVE TypeOK
    OBVIOUS
  <2>1. \A s \in States : YYSTOS[s + 1] \in 0 .. 37
    BY DEF States, YYSTOS
  <2>2. ASSUME NEW i \in DOMAIN stack
        PROVE  stack[i].state \in 0 .. 45 /\ HasType(YYSTOS[stack[i].state + 1], stack[i].val)
    <3>1. stack \in Seq(Slots) /\ i \in 1 .. Len(stack)
      BY DEF TypeInv, StackInv, StackIn
    <3>2. stack[i].state \in States
      <4>1. stack[i] \in Slots
        BY <3>1
      <4> QED BY <4>1 DEF Slots
    <3>3. Meets(YYSTOS[stack[i].state + 1], stack[i].val)
      BY <3>1 DEF TypeInv, StackInv, Valued
    <3> QED BY <2>1, <3>2, <3>3, MeetsType DEF States
  <2>3. ASSUME yychar # YYEMPTY PROVE HasType(yychar, yylval)
    <3>1. yychar \in 0 .. 24 /\ yychar \in Typed
      BY <2>3, TypedFacts DEF TypeInv, ScanInv
    <3>2. Meets(yychar, yylval)
      BY <3>1, TypedFacts DEF Meets, TypeInv, ScanInv
    <3> QED BY <3>1, <3>2, MeetsType
  <2> QED BY <2>2, <2>3 DEF TypeOK, TypeInv, ScanInv, StatusInv, HeapIn
<1> QED BY <1>1, ParserInvariant, PTL

\* Twelve places of the stack do for every line: yyparse never takes the branch
\* that grows the stack from YYINITDEPTH.
THEOREM StackWithin == Spec => []StackBounded
<1>1. TypeInv => StackBounded
  <2> SUFFICES ASSUME TypeInv PROVE Len(stack) <= 12
    BY DEF StackBounded
  <2> DEFINE k == Len(stack)
  <2>1. k \in 1 .. 12
    BY TopIs DEF TypeInv
  <2> HIDE DEF k
  <2>2. k <= 12
    BY <2>1
  <2> QED BY <2>2 DEF k
<1> QED BY <1>1, ParserInvariant, PTL
-----------------------------------------------------------------------------
(* Who frees a string.                                                     *)

\* The strings of the slot j places below the top.
Own(j) == Owned(YYSTOS[S(j) + 1], V(j))

\* The conditions of a list have each a string of their own.
Distinct(conds) ==
  \A a, b \in DOMAIN conds : conds[a].value.string = conds[b].value.string => a = b

Apart == \A i \in DOMAIN stack :
           YYSTOS[stack[i].state + 1] = 31 => Distinct(stack[i].val.conds)

OwnInv == TypeInv /\ Ownership /\ Apart

LEMMA OwnedIs ==
  ASSUME NEW v
  PROVE  /\ \A x \in {16, 17, 18, 35, 36} : Owned(x, v) = {v.string}
         /\ Owned(32, v) = {v.value.string}
         /\ Owned(31, v) = {v.conds[i].value.string : i \in DOMAIN v.conds}
         /\ \A x \in 0 .. 37 : x \notin {16, 17, 18, 31, 32, 35, 36} => Owned(x, v) = {}
<1>1. ASSUME NEW x \in {16, 17, 18, 35, 36} PROVE Owned(x, v) = {v.string}
  BY <1>1 DEF Owned, T
<1>2. Owned(32, v) = {v.value.string}
  BY DEF Owned, T
<1>3. Owned(31, v) = {v.conds[i].value.string : i \in DOMAIN v.conds}
  BY DEF Owned, T
<1>4. ASSUME NEW x \in 0 .. 37, x \notin {16, 17, 18, 31, 32, 35, 36}
      PROVE  Owned(x, v) = {}
  BY <1>4 DEF Owned, T
<1> QED BY <1>1, <1>2, <1>3, <1>4

LEMMA OwnIs ==
  ASSUME NEW j, S(j) \in States
  PROVE  /\ S(j) \in {15, 18, 19, 22, 23, 43, 44, 45} => Own(j) = {V(j).string}
         /\ S(j) \in {29, 42} => Own(j) = {V(j).value.string}
         /\ S(j) = 28 => Own(j) = {V(j).conds[i].value.string : i \in DOMAIN V(j).conds}
         /\ S(j) \notin {15, 18, 19, 22, 23, 28, 29, 42, 43, 44, 45} => Own(j) = {}
<1> DEFINE s == S(j)
<1>1. /\ s \in {15, 18, 19, 22, 23, 43, 44, 45} => YYSTOS[s + 1] \in {16, 17, 18, 35, 36}
      /\ s \in {29, 42} => YYSTOS[s + 1] = 32
      /\ s = 28 => YYSTOS[s + 1] = 31
      /\ s \in States /\ s \notin {15, 18, 19, 22, 23, 28, 29, 42, 43, 44, 45} =>
           YYSTOS[s + 1] \in 0 .. 37 /\ YYSTOS[s + 1] \notin {16, 17, 18, 31, 32, 35, 36}
  <2> HIDE DEF s
  <2> QED BY DEF YYSTOS, States
<1> QED BY <1>1, OwnedIs DEF Own

LEMMA PoppedIs ==
  ASSUME StackInv, NEW size \in 0 .. 7, size < Len(stack)
  PROVE  \A x : x \in Popped(Len(stack) - size) <=> \E j \in 0 .. size - 1 : x \in Own(j)
<1> DEFINE k == Len(stack)
<1>1. k \in Nat /\ size < k
  BY TopIs
<1>2. \A j : Own(j) = OwnedBySlot(stack[k - j])
  BY DEF Own, OwnedBySlot, S, V
<1> HIDE DEF k
<1>3. ASSUME NEW x PROVE (\E i \in k - size + 1 .. k : x \in OwnedBySlot(stack[i]))
                           <=> \E j \in 0 .. size - 1 : x \in Own(j)
  <2>1. ASSUME NEW i \in k - size + 1 .. k PROVE k - i \in 0 .. size - 1 /\ i = k - (k - i)
    BY <1>1
  <2>2. ASSUME NEW j \in 0 .. size - 1 PROVE k - j \in k - size + 1 .. k
    BY <1>1
  <2> QED BY <1>2, <2>1, <2>2
<1>4. \A x : x \in Popped(k - size) <=> \E i \in k - size + 1 .. k : x \in OwnedBySlot(stack[i])
  BY DEF Popped, k
<1> QED BY <1>3, <1>4 DEF k

LEMMA OwnApart ==
  ASSUME StackInv, Ownership, NEW j \in Nat, NEW i \in Nat, j < Len(stack), i < Len(stack), i # j
  PROVE  Own(i) \cap Own(j) = {}
<1> DEFINE k == Len(stack)
<1>1. k \in Nat /\ j < k /\ i < k /\ DOMAIN stack = 1 .. k
  BY TopIs DEF StackInv, StackIn
<1>2. Own(j) = OwnedBySlot(stack[k - j]) /\ Own(i) = OwnedBySlot(stack[k - i])
  BY DEF Own, OwnedBySlot, S, V
<1> HIDE DEF k
<1>3. k - j \in DOMAIN stack /\ k - i \in DOMAIN stack /\ k - i # k - j
  BY <1>1
<1> QED BY <1>2, <1>3 DEF Ownership

\* What is popped, pushed and read changes hands, or is freed.
LEMMA Transfer ==
  ASSUME OwnInv, NEW m, NEW g, NEW v, Pushed(m, g, v), StackIn',
         NEW K, K = Owned(YYSTOS[g + 1], v), NEW L, L = OwnedByLookahead',
         K \subseteq Popped(m) \cup OwnedByLookahead, L \subseteq OwnedByLookahead,
         K \cap L = {},
         heap' = heap \ ((Popped(m) \cup OwnedByLookahead) \ (K \cup L)),
         ~wild', YYSTOS[g + 1] = 31 => Distinct(v.conds)
  PROVE  Ownership' /\ Apart'
<1>1. /\ m \in 1 .. Len(stack) /\ Len(stack) \in Nat /\ DOMAIN stack = 1 .. Len(stack)
      /\ DOMAIN stack' = 1 .. m + 1
      /\ stack'[m + 1] = [state |-> g, val |-> v]
      /\ \A i \in 1 .. m : stack'[i] = stack[i]
  BY DEF Pushed, OwnInv, TypeInv, StackInv, StackIn
<1>2. OwnedBySlot(stack'[m + 1]) = K /\ \A i \in 1 .. m : OwnedBySlot(stack'[i]) = OwnedBySlot(stack[i])
  BY <1>1 DEF OwnedBySlot
<1> DEFINE A == UNION {OwnedBySlot(stack[i]) : i \in 1 .. m}
<1>3. \A i \in 1 .. m, j \in m + 1 .. Len(stack) :
         OwnedBySlot(stack[i]) \cap OwnedBySlot(stack[j]) = {}
  BY <1>1 DEF OwnInv, Ownership
<1>4. A \cap Popped(m) = {}
  <2>1. \A x \in A : \E i \in 1 .. m : x \in OwnedBySlot(stack[i])
    OBVIOUS
  <2>2. \A x \in Popped(m) : \E j \in m + 1 .. Len(stack) : x \in OwnedBySlot(stack[j])
    BY DEF Popped
  <2> QED BY <1>3, <2>1, <2>2, Zenon
<1>5. A \cap OwnedByLookahead = {}
  BY <1>1 DEF OwnInv, Ownership
<1>6. heap = A \cup Popped(m) \cup OwnedByLookahead
  <2>1. 1 .. Len(stack) = (1 .. m) \cup (m + 1 .. Len(stack))
    BY <1>1
  <2>2. UNION {OwnedBySlot(stack[i]) : i \in DOMAIN stack} = A \cup Popped(m)
    BY <1>1, <2>1 DEF Popped
  <2>3. heap = (UNION {OwnedBySlot(stack[i]) : i \in DOMAIN stack}) \cup OwnedByLookahead
    BY DEF OwnInv, Ownership
  <2> HIDE DEF A
  <2> QED BY <2>2, <2>3
<1>7. UNION {OwnedBySlot(stack'[i]) : i \in DOMAIN stack'} = A \cup K
  <2>1. 1 .. m + 1 = (1 .. m) \cup {m + 1}
    BY <1>1
  <2> QED BY <1>1, <1>2, <2>1
<1>8. \A i \in 1 .. m : OwnedBySlot(stack[i]) \subseteq A
  OBVIOUS
<1>9. K \cap A = {} /\ L \cap A = {}
  BY <1>4, <1>5
<1>10. heap' = (A \cup K) \cup L
  <2> HIDE DEF A
  <2> QED BY <1>4, <1>5, <1>6
<1>11. ASSUME NEW i \in DOMAIN stack', NEW j \in DOMAIN stack', i # j
       PROVE  OwnedBySlot(stack'[i]) \cap OwnedBySlot(stack'[j]) = {}
  <2>1. CASE i \in 1 .. m /\ j \in 1 .. m
    <3>1. i \in DOMAIN stack /\ j \in DOMAIN stack
      BY <1>1, <2>1
    <3>2. OwnedBySlot(stack[i]) \cap OwnedBySlot(stack[j]) = {}
      BY <1>11, <3>1 DEF OwnInv, Ownership
    <3> QED BY <1>2, <2>1, <3>2
  <2>2. CASE i = m + 1 /\ j \in 1 .. m
    BY <1>2, <1>8, <1>9, <2>2
  <2>3. CASE i \in 1 .. m /\ j = m + 1
    BY <1>2, <1>8, <1>9, <2>3
  <2> QED BY <1>1, <1>11, <2>1, <2>2, <2>3
<1>12. ASSUME NEW i \in DOMAIN stack'
       PROVE  OwnedBySlot(stack'[i]) \cap OwnedByLookahead' = {}
  <2>1. CASE i \in 1 .. m
    BY <1>2, <1>8, <1>9, <2>1
  <2>2. CASE i = m + 1
    BY <1>2, <2>2
  <2> QED BY <1>1, <1>12, <2>1, <2>2
<1>13. Ownership'
  <2> DEFINE B == UNION {OwnedBySlot(stack[i]) : i \in DOMAIN stack}
  <2>1. (heap = B \cup OwnedByLookahead)'
    <3>1. B' = UNION {OwnedBySlot(stack'[i]) : i \in DOMAIN stack'}
      BY DEF OwnedBySlot, Owned, YYSTOS, T
    <3>2. B' = A \cup K
      BY <1>7, <3>1
    <3> HIDE DEF B, A
    <3> QED BY <1>10, <3>2
  <2>2. (\A i, j \in DOMAIN stack :
           i # j => OwnedBySlot(stack[i]) \cap OwnedBySlot(stack[j]) = {})'
    BY <1>11 DEF OwnedBySlot, Owned, YYSTOS, T
  <2>3. (\A i \in DOMAIN stack : OwnedBySlot(stack[i]) \cap OwnedByLookahead = {})'
    BY <1>12 DEF OwnedBySlot, Owned, YYSTOS, T
  <2> QED BY <2>1, <2>2, <2>3 DEF Ownership
<1>14. ASSUME NEW i \in DOMAIN stack', YYSTOS[stack'[i].state + 1] = 31
       PROVE  Distinct(stack'[i].val.conds)
  <2>1. CASE i \in 1 .. m
    BY <1>1, <1>14, <2>1 DEF OwnInv, Apart
  <2>2. CASE i = m + 1
    BY <1>1, <1>14, <2>2
  <2> QED BY <1>1, <1>14, <2>1, <2>2
<1>15. Apart'
  BY <1>14 DEF Apart, YYSTOS
<1> QED BY <1>13, <1>15

\* What the action of a rule frees and what its symbol owns are what it pops.
Hands(n, size, y) ==
  /\ \A x : x \in ToSet(RuleFrees(n)) \/ x \in Owned(y, RuleValue(n))
              <=> \E j \in 0 .. size - 1 : x \in Own(j)
  /\ ToSet(RuleFrees(n)) \cap Owned(y, RuleValue(n)) = {}
  /\ IsInjective(RuleFrees(n))
  /\ y = 31 => Distinct(RuleValue(n).conds)

LEMMA NoneFreed ==
  ToSet(<<>>) = {} /\ IsInjective(<<>>)
BY DEF ToSet, IsInjective

LEMMA OneFreed ==
  \A a : ToSet(<<a>>) = {a} /\ IsInjective(<<a>>)
BY DEF ToSet, IsInjective

LEMMA TwoFreed ==
  \A a, b : a # b => ToSet(<<a, b>>) = {a, b} /\ IsInjective(<<a, b>>)
BY DEF ToSet, IsInjective

LEMMA CondFreesAre ==
  ASSUME NEW a, NEW conds \in Seq(Conditions), Distinct(conds),
         \A i \in DOMAIN conds : conds[i].value.string # a
  PROVE  LET f == <<a>> \o CondFrees(conds) IN
         /\ ToSet(f) = {a} \cup {conds[i].value.string : i \in DOMAIN conds}
         /\ IsInjective(f)
<1> DEFINE c == CondFrees(conds)
           k == Len(conds)
           N == {a} \cup {conds[i].value.string : i \in DOMAIN conds}
           f == <<a>> \o c
<1>1. k \in Nat /\ DOMAIN conds = 1 .. k
  OBVIOUS
<1>2. c \in Seq(N) /\ Len(c) = k /\ \A i \in 1 .. k : c[i] = conds[i].value.string
  <2> HIDE DEF k
  <2>1. c = [i \in 1 .. k |-> conds[i].value.string]
    BY <1>1 DEF CondFrees
  <2>2. \A i \in 1 .. k : conds[i].value.string \in N
    BY <1>1
  <2> HIDE DEF N, c
  <2>3. c \in [1 .. k -> N]
    BY <2>1, <2>2
  <2> QED BY <1>1, <2>1, <2>3
<1>3. <<a>> \in Seq(N) /\ Len(<<a>>) = 1 /\ <<a>>[1] = a
  OBVIOUS
<1> HIDE DEF c, k, N
<1>4. /\ DOMAIN f = 1 .. k + 1 /\ f[1] = a
      /\ \A i \in 2 .. k + 1 : f[i] = conds[i - 1].value.string
  <2>1. Len(f) = k + 1 /\ f \in Seq(N)
    BY <1>1, <1>2, <1>3
  <2>2. f[1] = a
    BY <1>1, <1>2, <1>3
  <2>3. \A i \in 2 .. k + 1 : f[i] = c[i - 1]
    BY <1>1, <1>2, <1>3
  <2> QED BY <1>1, <1>2, <2>1, <2>2, <2>3
<1> HIDE DEF f
<1>5. ToSet(f) = {a} \cup {conds[i].value.string : i \in DOMAIN conds}
  <2>1. ASSUME NEW i \in 1 .. k PROVE conds[i].value.string = f[i + 1] /\ i + 1 \in DOMAIN f
    BY <1>1, <1>4
  <2>2. ASSUME NEW i \in 2 .. k + 1 PROVE f[i] = conds[i - 1].value.string /\ i - 1 \in DOMAIN conds
    BY <1>1, <1>4
  <2>3. 1 \in DOMAIN f /\ DOMAIN f = {1} \cup 2 .. k + 1
    BY <1>1, <1>4
  <2>4. \A x : x \in ToSet(f) <=> \E i \in DOMAIN f : x = f[i]
    BY DEF ToSet
  <2>5. ASSUME NEW x \in ToSet(f) PROVE x \in {a} \cup {conds[i].value.string : i \in DOMAIN conds}
    <3>1. PICK i \in DOMAIN f : x = f[i]
      BY <2>4
    <3>2. i = 1 \/ i \in 2 .. k + 1
      BY <2>3
    <3> QED BY <1>4, <2>2, <3>1, <3>2
  <2>6. ASSUME NEW x \in {a} \cup {conds[i].value.string : i \in DOMAIN conds} PROVE x \in ToSet(f)
    <3>1. CASE x = a
      BY <1>4, <2>3, <2>4, <3>1
    <3>2. CASE x # a
      <4>1. PICK i \in DOMAIN conds : x = conds[i].value.string
        BY <3>2
      <4> QED BY <1>1, <2>1, <2>4, <4>1
    <3> QED BY <3>1, <3>2
  <2> QED BY <2>5, <2>6
<1>6. IsInjective(f)
  <2> SUFFICES ASSUME NEW i \in 1 .. k + 1, NEW j \in 1 .. k + 1, f[i] = f[j] PROVE i = j
    BY <1>4 DEF IsInjective
  <2>1. CASE i = 1 \/ j = 1
    <3>1. ASSUME NEW m \in 1 .. k + 1, m # 1 PROVE f[m] # a
      <4>1. m \in 2 .. k + 1 /\ m - 1 \in DOMAIN conds
        BY <1>1, <3>1
      <4> QED BY <1>1, <1>4, <4>1
    <3> QED BY <1>4, <2>1, <3>1
  <2>2. CASE i # 1 /\ j # 1
    <3>1. i - 1 \in DOMAIN conds /\ j - 1 \in DOMAIN conds /\ i \in Int /\ j \in Int
      BY <1>1, <2>2
    <3>2. conds[i - 1].value.string = conds[j - 1].value.string
      BY <1>1, <1>4, <2>2
    <3>3. i - 1 = j - 1
      BY <3>1, <3>2 DEF Distinct
    <3> QED BY <3>1, <3>3
  <2> QED BY <2>1, <2>2
<1> QED BY <1>5, <1>6 DEF c, f

LEMMA RuleHands ==
  ASSUME OwnInv, NEW n, NEW size, NEW y, NEW g, Rule(n, size, y, g), n # 9
  PROVE  Hands(n, size, y)
<1>1. /\ n \in 1 .. 29 /\ Reduces(S(0), n, size, y) /\ size \in 0 .. 7 /\ Handle(n)
      /\ size < Len(stack)
      /\ \A j \in 0 .. size : S(j) \in States /\ Meets(YYSTOS[S(j) + 1], V(j))
      /\ \A k \in 1 .. size : Dollar(n, k) = V(size - k)
      /\ n # 1
  <2>1. Top = S(0)
    BY TopIs DEF OwnInv, TypeInv
  <2>2. S(0) # 2
    <3>1. 0 \in Nat /\ 0 < Len(stack)
      BY TopIs DEF OwnInv, TypeInv
    <3>2. S(0) # 0 => Edge(S(0 + 1), S(0))
      BY <3>1, Below DEF OwnInv, TypeInv
    <3> QED BY <3>2 DEF Edge
  <2>3. Reduces(S(0), n, size, y) /\ n \in 1 .. 29
    BY <2>1 DEF Rule
  <2>4. n # 1
    BY <2>2, <2>3 DEF Reduces
  <2> QED BY <2>3, <2>4 DEF Rule
<1>2. \A i, j \in 0 .. size : i # j => Own(i) \cap Own(j) = {}
  <2> SUFFICES ASSUME NEW i \in 0 .. size, NEW j \in 0 .. size, i # j
               PROVE  Own(i) \cap Own(j) = {}
    OBVIOUS
  <2> DEFINE k == Len(stack)
  <2>1. k \in Nat /\ size < k
    BY <1>1, TopIs DEF OwnInv, TypeInv
  <2> HIDE DEF k
  <2>2. i \in Nat /\ j \in Nat /\ i < k /\ j < k
    BY <1>1, <2>1
  <2> QED BY <2>2, OwnApart DEF OwnInv, TypeInv, k
<1>3. ASSUME NEW j \in 0 .. size, S(j) = 28 PROVE Distinct(V(j).conds)
  <2> DEFINE i == Len(stack) - j
  <2>1. i \in DOMAIN stack
    <3>1. Len(stack) \in Nat /\ stack \in Seq(Slots)
      BY TopIs DEF OwnInv, TypeInv, StackInv, StackIn
    <3> QED BY <1>1, <3>1
  <2>2. stack[i].state = 28 /\ stack[i].val = V(j)
    BY <1>3 DEF S, V
  <2>3. YYSTOS[28 + 1] = 31
    BY DEF YYSTOS
  <2> QED BY <2>1, <2>2, <2>3 DEF OwnInv, Apart
<1>4. \A j \in 0 .. size :
        /\ S(j) \in {15, 18, 19, 22, 23, 43, 44, 45} => Own(j) = {V(j).string}
        /\ S(j) \in {29, 42} => Own(j) = {V(j).value.string}
        /\ S(j) = 28 => Own(j) = {V(j).conds[i].value.string : i \in DOMAIN V(j).conds}
        /\ S(j) \notin {15, 18, 19, 22, 23, 28, 29, 42, 43, 44, 45} => Own(j) = {}
  BY <1>1, OwnIs
<1>5. CASE n \in {2, 3, 4, 5, 6, 7, 8, 17, 18, 19} \/ n \in 24 .. 29
  <2>1. RuleFrees(n) = <<>>
    BY <1>5 DEF RuleFrees
  <2>2. y \in {26, 27, 33, 37}
    BY <1>1, <1>5 DEF Reduces
  <2>3. Owned(y, RuleValue(n)) = {}
    BY <2>2, OwnedIs
  <2>4. ASSUME NEW j \in 0 .. size - 1
        PROVE  S(j) \notin {15, 18, 19, 22, 23, 28, 29, 42, 43, 44, 45}
    <3>1. size \in 0 .. 2 /\ (size = 2 => n \in {2, 7})
      BY <1>1, <1>5 DEF Reduces
    <3>2. j = 0 \/ (j = 1 /\ n \in {2, 7})
      BY <3>1
    <3>a. Reduces(S(0), n, size, y)
      BY <1>1
    <3>3. S(0) \notin {15, 18, 19, 22, 23, 28, 29, 42, 43, 44, 45}
      BY <1>5, <3>a DEF Reduces
    <3>4. n \in {2, 7} => S(1) \in {1, 3}
      BY <1>1 DEF Handle
    <3> QED BY <3>2, <3>3, <3>4
  <2>5. ASSUME NEW j \in 0 .. size - 1 PROVE Own(j) = {}
    <3>1. j \in 0 .. size
      BY <1>1
    <3> QED BY <1>4, <2>4, <3>1
  <2>20. ToSet(RuleFrees(n)) = {} /\ IsInjective(RuleFrees(n))
    BY <2>1, NoneFreed
  <2> QED BY <2>1, <2>2, <2>3, <2>5, <2>20 DEF Hands
<1>6. CASE n = 10
  <2>1. /\ size = 5 /\ y = 29
        /\ S(0) = 27 /\ S(1) = 23 /\ S(2) = 21 /\ S(3) = 19 /\ S(4) = 5
    BY <1>6, CommandIs DEF OwnInv, TypeInv
  <2>2. Own(0) = {} /\ Own(1) = {V(1).string} /\ Own(2) = {} /\ Own(3) = {V(3).string}
        /\ Own(4) = {}
    BY <1>4, <2>1
  <2>3. RuleFrees(n) = <<V(3).string, V(1).string>>
    BY <1>6, CommandIs DEF RuleFrees, OwnInv, TypeInv
  <2>4. V(3).string # V(1).string
    BY <1>2, <2>1, <2>2
  <2>5. Owned(y, RuleValue(n)) = {}
    BY <2>1, OwnedIs
  <2>6. ToSet(RuleFrees(n)) = {V(3).string, V(1).string} /\ IsInjective(RuleFrees(n))
    BY <2>3, <2>4, TwoFreed
  <2>7. 0 .. size - 1 = {0, 1, 2, 3, 4}
    BY <2>1
  <2> QED BY <2>1, <2>2, <2>5, <2>6, <2>7 DEF Hands
<1>7. CASE n = 11
  <2>1. /\ size = 7 /\ y = 29
        /\ S(0) = 41 /\ S(1) = 31 /\ S(2) = 26 /\ S(3) = 23 /\ S(4) = 21
        /\ S(5) = 19 /\ S(6) = 5
    BY <1>7, CommandIs DEF OwnInv, TypeInv
  <2>2. Own(0) = {} /\ Own(1) = {} /\ Own(2) = {} /\ Own(3) = {V(3).string}
        /\ Own(4) = {} /\ Own(5) = {V(5).string} /\ Own(6) = {}
    BY <1>4, <2>1
  <2>3. RuleFrees(n) = <<V(5).string, V(3).string>>
    BY <1>7, CommandIs DEF RuleFrees, OwnInv, TypeInv
  <2>4. V(3).string # V(5).string
    BY <1>2, <2>1, <2>2
  <2>5. Owned(y, RuleValue(n)) = {}
    BY <2>1, OwnedIs
  <2>6. ToSet(RuleFrees(n)) = {V(5).string, V(3).string} /\ IsInjective(RuleFrees(n))
    BY <2>3, <2>4, TwoFreed
  <2>7. 0 .. size - 1 = {0, 1, 2, 3, 4, 5, 6}
    BY <2>1
  <2> QED BY <2>1, <2>2, <2>5, <2>6, <2>7 DEF Hands
<1>8. CASE n = 12
  <2>1. /\ size = 5 /\ y = 30
        /\ S(0) = 25 /\ S(1) = 22 /\ S(2) = 20 /\ S(3) = 16 /\ S(4) = 4
    BY <1>8, CommandIs DEF OwnInv, TypeInv
  <2>2. Own(0) = {} /\ Own(1) = {V(1).string} /\ Own(2) = {} /\ Own(3) = {} /\ Own(4) = {}
    BY <1>4, <2>1
  <2>3. RuleFrees(n) = <<V(1).string>>
    BY <1>8, CommandIs DEF RuleFrees, OwnInv, TypeInv
  <2>5. Owned(y, RuleValue(n)) = {}
    BY <2>1, OwnedIs
  <2>6. ToSet(RuleFrees(n)) = {V(1).string} /\ IsInjective(RuleFrees(n))
    BY <2>3, OneFreed
  <2>7. 0 .. size - 1 = {0, 1, 2, 3, 4}
    BY <2>1
  <2> QED BY <2>1, <2>2, <2>5, <2>6, <2>7 DEF Hands
<1>9. CASE n = 13
  <2>1. /\ size = 7 /\ y = 30
        /\ S(0) = 33 /\ S(1) = 28 /\ S(2) = 24 /\ S(3) = 22 /\ S(4) = 20
        /\ S(5) = 16 /\ S(6) = 4
    BY <1>9, CommandIs DEF OwnInv, TypeInv
  <2> DEFINE c == V(1).conds
             a == V(3).string
  <2>2. /\ Own(0) = {} /\ Own(1) = {c[i].value.string : i \in DOMAIN c} /\ Own(2) = {}
        /\ Own(3) = {a} /\ Own(4) = {} /\ Own(5) = {} /\ Own(6) = {}
    BY <1>4, <2>1
  <2>3. RuleFrees(n) = <<a>> \o CondFrees(c)
    <3>1. Dollar(n, 4) = V(3) /\ Dollar(n, 6) = V(1)
      BY <1>9, CommandIs DEF OwnInv, TypeInv
    <3> QED BY <1>9, <3>1 DEF RuleFrees
  <2>4. c \in Seq(Conditions) /\ Distinct(c)
    <3>1. YYSTOS[S(1) + 1] = 31
      BY <2>1 DEF YYSTOS
    <3> QED BY <1>1, <1>3, <2>1, <3>1 DEF Meets
  <2> HIDE DEF c, a
  <2>5. \A i \in DOMAIN c : c[i].value.string # a
    BY <1>2, <2>1, <2>2
  <2>6. /\ ToSet(RuleFrees(n)) = {a} \cup {c[i].value.string : i \in DOMAIN c}
        /\ IsInjective(RuleFrees(n))
    BY <2>3, <2>4, <2>5, CondFreesAre
  <2>7. Owned(y, RuleValue(n)) = {}
    BY <2>1, OwnedIs
  <2>8. 0 .. size - 1 = {0, 1, 2, 3, 4, 5, 6}
    BY <2>1
  <2> QED BY <2>1, <2>2, <2>6, <2>7, <2>8 DEF Hands
<1>10. CASE n = 14
  <2>1. size = 1 /\ y = 31 /\ S(0) = 29
    BY <1>1, <1>10 DEF Reduces
  <2>2. Own(0) = {V(0).value.string}
    BY <1>4, <2>1
  <2>3. RuleFrees(n) = <<>>
    BY <1>10 DEF RuleFrees
  <2>4. RuleValue(n) = [conds |-> <<V(0)>>]
    <3>1. Dollar(n, 1) = V(0)
      BY <1>1, <2>1
    <3> QED BY <1>10, <3>1 DEF RuleValue, CondsValue, YYR2
  <2> DEFINE c == RuleValue(n).conds
  <2>5. c = <<V(0)>> /\ DOMAIN c = {1} /\ c[1] = V(0)
    BY <2>4
  <2>6. Owned(y, RuleValue(n)) = {c[i].value.string : i \in DOMAIN c}
    BY <2>1, OwnedIs
  <2>7. Owned(y, RuleValue(n)) = {V(0).value.string}
    BY <2>5, <2>6
  <2>8. Distinct(c)
    BY <2>5 DEF Distinct
  <2> HIDE DEF c
  <2>9. 0 .. size - 1 = {0}
    BY <2>1
  <2>20. ToSet(RuleFrees(n)) = {} /\ IsInjective(RuleFrees(n))
    BY <2>3, NoneFreed
  <2> QED BY <2>2, <2>3, <2>7, <2>8, <2>9, <2>20 DEF Hands, c
<1>11. CASE n = 15
  <2>1. size = 3 /\ y = 31 /\ S(0) = 42 /\ S(1) = 32 /\ S(2) = 28
    BY <1>1, <1>11 DEF Reduces, Handle
  <2> DEFINE d == V(2).conds
             k == Len(d)
  <2>2. Own(0) = {V(0).value.string} /\ Own(1) = {}
        /\ Own(2) = {d[i].value.string : i \in DOMAIN d}
    BY <1>4, <2>1
  <2>3. RuleFrees(n) = <<>>
    BY <1>11 DEF RuleFrees
  <2>4. RuleValue(n) = [conds |-> Append(d, V(0))]
    <3>1. Dollar(n, 3) = V(0) /\ Dollar(n, 1) = V(2)
      BY <1>1, <2>1
    <3> QED BY <1>11, <3>1 DEF RuleValue, CondsValue, YYR2
  <2>5. d \in Seq(Conditions) /\ Distinct(d) /\ V(0) \in Conditions
    <3>1. YYSTOS[S(2) + 1] = 31 /\ YYSTOS[S(0) + 1] = 32
      BY <2>1 DEF YYSTOS
    <3> QED BY <1>1, <1>3, <2>1, <3>1 DEF Meets
  <2> DEFINE c == RuleValue(n).conds
  <2> HIDE DEF d
  <2>6. /\ k \in Nat /\ DOMAIN d = 1 .. k
        /\ DOMAIN c = 1 .. k + 1 /\ c[k + 1] = V(0) /\ \A i \in 1 .. k : c[i] = d[i]
    BY <2>4, <2>5
  <2>7. Owned(y, RuleValue(n)) = {c[i].value.string : i \in DOMAIN c}
    BY <2>1, OwnedIs
  <2>8. \A i \in DOMAIN d : d[i].value.string # V(0).value.string
    BY <1>2, <2>1, <2>2
  <2> HIDE DEF c, k
  <2>9. Distinct(c)
    <3> SUFFICES ASSUME NEW i \in 1 .. k + 1, NEW j \in 1 .. k + 1,
                        c[i].value.string = c[j].value.string
                 PROVE  i = j
      BY <2>6 DEF Distinct
    <3>1. CASE i \in 1 .. k /\ j \in 1 .. k
      BY <2>5, <2>6, <3>1 DEF Distinct
    <3>2. CASE i = k + 1 \/ j = k + 1
      BY <2>6, <2>8, <3>2
    <3> QED BY <2>6, <3>1, <3>2
  <2>10. \A x : x \in Owned(y, RuleValue(n)) <=> x \in Own(0) \/ x \in Own(2)
    <3>1. \A x : x \in Owned(y, RuleValue(n)) <=> \E i \in 1 .. k + 1 : x = c[i].value.string
      BY <2>6, <2>7
    <3>2. \A x : x \in Own(2) <=> \E i \in 1 .. k : x = d[i].value.string
      BY <2>2, <2>6
    <3>3. \A i : i \in 1 .. k + 1 <=> i \in 1 .. k \/ i = k + 1
      BY <2>6
    <3> QED BY <2>2, <2>6, <3>1, <3>2, <3>3
  <2>11. 0 .. size - 1 = {0, 1, 2}
    BY <2>1
  <2>20. ToSet(RuleFrees(n)) = {} /\ IsInjective(RuleFrees(n))
    BY <2>3, NoneFreed
  <2> QED BY <2>1, <2>2, <2>3, <2>9, <2>10, <2>11, <2>20 DEF Hands, c
<1>12. CASE n = 16
  <2>1. size = 3 /\ y = 32 /\ S(0) = 45 /\ S(1) = 40 /\ S(2) = 30
    BY <1>1, <1>12 DEF Reduces, Handle
  <2>2. Own(0) = {V(0).string} /\ Own(1) = {} /\ Own(2) = {}
    BY <1>4, <2>1
  <2>3. RuleFrees(n) = <<>>
    BY <1>12 DEF RuleFrees
  <2>4. RuleValue(n).value = V(0)
    <3>1. Dollar(n, 3) = V(0)
      BY <1>1, <2>1
    <3> QED BY <1>12, <3>1 DEF RuleValue, YYR2
  <2>5. Owned(y, RuleValue(n)) = {V(0).string}
    BY <2>1, <2>4, OwnedIs
  <2>6. 0 .. size - 1 = {0, 1, 2}
    BY <2>1
  <2>20. ToSet(RuleFrees(n)) = {} /\ IsInjective(RuleFrees(n))
    BY <2>3, NoneFreed
  <2> QED BY <2>1, <2>2, <2>3, <2>5, <2>6, <2>20 DEF Hands
<1>13. CASE n = 20
  <2>1. size = 1 /\ y = 34 /\ S(0) = 15
    BY <1>1, <1>13 DEF Reduces
  <2>2. Own(0) = {V(0).string}
    BY <1>4, <2>1
  <2>3. RuleFrees(n) = <<V(0).string>>
    <3>1. Dollar(n, 1) = V(0)
      BY <1>1, <2>1
    <3> QED BY <1>13, <3>1 DEF RuleFrees
  <2>4. Owned(y, RuleValue(n)) = {}
    BY <2>1, OwnedIs
  <2>5. ToSet(RuleFrees(n)) = {V(0).string} /\ IsInjective(RuleFrees(n))
    BY <2>3, OneFreed
  <2>6. 0 .. size - 1 = {0}
    BY <2>1
  <2> QED BY <2>1, <2>2, <2>4, <2>5, <2>6 DEF Hands
<1>14. CASE n \in {21, 22, 23}
  <2>1. size = 1 /\ y \in {35, 36} /\ S(0) \in {18, 43, 44}
    BY <1>1, <1>14 DEF Reduces
  <2>2. Own(0) = {V(0).string}
    BY <1>4, <2>1
  <2>3. RuleFrees(n) = <<>>
    BY <1>14 DEF RuleFrees
  <2>4. RuleValue(n) = V(0)
    <3>1. Dollar(n, 1) = V(0)
      BY <1>1, <2>1
    <3> QED BY <1>14, <3>1 DEF RuleValue, YYR2
  <2>5. Owned(y, RuleValue(n)) = {V(0).string}
    BY <2>1, <2>4, OwnedIs
  <2>6. 0 .. size - 1 = {0}
    BY <2>1
  <2>20. ToSet(RuleFrees(n)) = {} /\ IsInjective(RuleFrees(n))
    BY <2>3, NoneFreed
  <2> QED BY <2>1, <2>2, <2>3, <2>5, <2>6, <2>20 DEF Hands
<1> QED BY <1>1, <1>5, <1>6, <1>7, <1>8, <1>9, <1>10, <1>11, <1>12, <1>13, <1>14

LEMMA OwnedByTyped ==
  ASSUME NEW x \in Typed, NEW v
  PROVE  Owned(x, v) = IF x \in Texted THEN {v.string} ELSE {}
<1>1. x \in 0 .. 24
  BY TypedFacts
<1>2. CASE x \in Texted
  BY <1>2, TypedFacts, OwnedIs
<1>3. CASE x \notin Texted
  <2>1. x \in 0 .. 37 /\ x \notin {16, 17, 18, 31, 32, 35, 36}
    BY <1>1, <1>3, TypedFacts
  <2> QED BY <1>3, <2>1, OwnedIs
<1> QED BY <1>2, <1>3

LEMMA ReadOwns ==
  ASSUME OwnInv, NEW type \in Typed, NEW x \in Texts(type),
         ReadToken([type |-> type, text |-> x])
  PROVE  OwnInv'
<1>1. /\ yychar = YYEMPTY /\ yychar' = type /\ UNCHANGED <<stack, wild>>
      /\ IF type \in Texted
           THEN yylval' = StrVal(FreshString, x) /\ heap' = heap \cup {FreshString}
           ELSE UNCHANGED <<yylval, heap>>
  BY DEF ReadToken, Wants, Texted
<1>2. FreshString \notin heap
  BY FreshIs DEF OwnInv, TypeInv, HeapIn
<1>3. TypeInv'
  BY ReadKeeps DEF OwnInv
<1>4. OwnedByLookahead = {}
  BY <1>1 DEF OwnedByLookahead
<1>5. OwnedByLookahead' = IF type \in Texted THEN {FreshString} ELSE {}
  <2>1. type # YYEMPTY
    BY TypedFacts
  <2>2. OwnedByLookahead' = Owned(type, yylval')
    BY <1>1, <2>1 DEF OwnedByLookahead, Owned, T
  <2>3. type \in Texted => yylval'.string = FreshString
    BY <1>1 DEF StrVal
  <2>4. Owned(type, yylval') = IF type \in Texted THEN {yylval'.string} ELSE {}
    BY OwnedByTyped
  <2> QED BY <2>2, <2>3, <2>4
<1>6. \A i \in DOMAIN stack : OwnedBySlot(stack[i]) \subseteq heap
  BY DEF OwnInv, Ownership
<1> DEFINE B == UNION {OwnedBySlot(stack[i]) : i \in DOMAIN stack}
<1>7. B' = B /\ heap = B \cup OwnedByLookahead /\ Apart' /\ ~wild'
      /\ \A i, j \in DOMAIN stack :
           i # j => OwnedBySlot(stack[i]) \cap OwnedBySlot(stack[j]) = {}
  BY <1>1 DEF OwnInv, Ownership, Apart
<1>8. heap' = B' \cup OwnedByLookahead'
  <2> HIDE DEF B
  <2> QED BY <1>1, <1>4, <1>5, <1>7
<1>9. \A i \in DOMAIN stack : OwnedBySlot(stack[i]) \cap OwnedByLookahead' = {}
  BY <1>2, <1>5, <1>6
<1>10. Ownership'
  BY <1>1, <1>7, <1>8, <1>9 DEF Ownership
<1> QED BY <1>3, <1>7, <1>10 DEF OwnInv

LEMMA ShiftOwns ==
  ASSUME OwnInv, Shift
  PROVE  OwnInv'
<1>1. PICK g : /\ yychar \in 3 .. 24 /\ YYSTOS[g + 1] = yychar
               /\ Pushed(Len(stack), g, yylval) /\ StackInv' /\ yychar' = YYEMPTY
  BY ShiftFacts DEF OwnInv
<1>2. TypeInv'
  BY ShiftKeeps DEF OwnInv
<1> DEFINE K == OwnedByLookahead
           m == Len(stack)
<1>3. K = Owned(YYSTOS[g + 1], yylval)
  BY <1>1, TypedFacts DEF OwnedByLookahead
<1>4. OwnedByLookahead' = {}
  BY <1>1 DEF OwnedByLookahead
<1>5. Popped(m) = {}
  <2>1. m \in Nat
    BY TopIs DEF OwnInv, TypeInv
  <2>2. m + 1 .. m = {}
    BY <2>1
  <2> QED BY <2>2 DEF Popped
<1>6. heap' = heap /\ ~wild'
  BY DEF Shift, OwnInv, Ownership
<1>7. heap' = heap \ ((Popped(m) \cup K) \ (K \cup OwnedByLookahead'))
  <2> HIDE DEF K, m
  <2> QED BY <1>5, <1>6
<1>8. K \subseteq Popped(m) \cup OwnedByLookahead /\ OwnedByLookahead' \subseteq OwnedByLookahead
      /\ K \cap OwnedByLookahead' = {} /\ YYSTOS[g + 1] # 31 /\ StackIn'
  BY <1>1, <1>4 DEF StackInv
<1> HIDE DEF K, m
<1>9. Ownership' /\ Apart'
  <2>1. Pushed(m, g, yylval)
    BY <1>1 DEF m
  <2>2. heap' = heap \ ((Popped(m) \cup OwnedByLookahead) \ (K \cup OwnedByLookahead'))
    BY <1>7 DEF K
  <2> QED BY <1>3, <1>6, <1>8, <2>1, <2>2, Transfer
<1> QED BY <1>2, <1>9 DEF OwnInv

LEMMA ErrorOwns ==
  ASSUME OwnInv, Recover \/ Discard
  PROVE  OwnInv'
<1>1. ErrorNow /\ Catchers # {} /\ Caught(Max(Catchers)) /\ Max(Catchers) = 2
  BY CatchIs DEF Recover, Discard, OwnInv, TypeInv
<1>2. Pushed(2, 3, yylval) /\ StackIn'
  BY <1>1, CaughtIs DEF OwnInv, StackInv
<1>3. TypeInv'
  BY ErrorKeeps DEF OwnInv
<1>4. Owned(YYSTOS[3 + 1], yylval) = {} /\ YYSTOS[3 + 1] # 31
  <2>1. YYSTOS[3 + 1] = 1
    BY DEF YYSTOS
  <2> QED BY <2>1, OwnedIs
<1>5. Popped(2) \cap OwnedByLookahead = {}
  <2>1. \A i \in 2 + 1 .. Len(stack) : OwnedBySlot(stack[i]) \cap OwnedByLookahead = {}
    <3>1. stack \in Seq(Slots)
      BY DEF OwnInv, TypeInv, StackInv, StackIn
    <3>2. \A i \in 2 + 1 .. Len(stack) : i \in DOMAIN stack
      BY <3>1
    <3> QED BY <3>2 DEF OwnInv, Ownership
  <2> QED BY <2>1 DEF Popped
<1>6. ~wild'
  BY DEF Recover, Discard, OwnInv, Ownership
<1>7. OwnedByLookahead' \subseteq OwnedByLookahead
      /\ heap' = heap \ ((Popped(2) \cup OwnedByLookahead) \ ({} \cup OwnedByLookahead'))
  <2>1. CASE Recover
    <3>1. OwnedByLookahead' = OwnedByLookahead /\ heap' = heap \ Popped(2)
      BY <1>1, <2>1 DEF Recover, OwnedByLookahead
    <3> QED BY <1>5, <3>1
  <2>2. CASE Discard
    <3>1. OwnedByLookahead' = {} /\ heap' = heap \ (Popped(2) \cup OwnedByLookahead)
      BY <1>1, <2>2 DEF Discard, OwnedByLookahead
    <3> QED BY <3>1
  <2> QED BY <2>1, <2>2
<1>8. Ownership' /\ Apart'
  <2>1. {} \subseteq Popped(2) \cup OwnedByLookahead /\ {} \cap OwnedByLookahead' = {}
    OBVIOUS
  <2> QED BY <1>2, <1>4, <1>6, <1>7, <2>1, Transfer
<1> QED BY <1>3, <1>8 DEF OwnInv

LEMMA ReduceOwns ==
  ASSUME OwnInv, Reduce
  PROVE  OwnInv'
<1>1. PICK n, size, y, g :
           /\ Rule(n, size, y, g) /\ yychar = YYEMPTY /\ yychar' = yychar
           /\ heap' = heap \ ToSet(RuleFrees(n))
           /\ wild' = (wild \/ ~IsInjective(RuleFrees(n))
                            \/ ToSet(RuleFrees(n)) \ heap # {})
           /\ n = QuitRule => UNCHANGED <<stack, yylval>>
           /\ n # QuitRule =>
                /\ Pushed(Len(stack) - size, g, RuleValue(n))
                /\ YYSTOS[g + 1] = y
                /\ StackInv'
  BY ReduceFacts DEF OwnInv
<1>2. TypeInv'
  BY ReduceKeeps DEF OwnInv
<1>3. OwnedByLookahead = {} /\ OwnedByLookahead' = {}
  BY <1>1 DEF OwnedByLookahead
<1> DEFINE F == ToSet(RuleFrees(n))
<1>4. CASE n = QuitRule
  <2>1. F = {} /\ IsInjective(RuleFrees(n))
    <3>1. RuleFrees(n) = <<>>
      BY <1>4 DEF RuleFrees, QuitRule
    <3> QED BY <3>1, NoneFreed
  <2>2. UNCHANGED <<stack, heap>> /\ ~wild'
    <3>1. heap' = heap \ F /\ (wild' = (wild \/ ~IsInjective(RuleFrees(n)) \/ F \ heap # {}))
      BY <1>1
    <3>2. ~wild
      BY DEF OwnInv, Ownership
    <3> HIDE DEF F
    <3>3. heap' = heap /\ ~wild'
      BY <2>1, <3>1, <3>2
    <3> QED BY <1>1, <1>4, <3>2, <3>3, Zenon
  <2>3. Ownership' /\ Apart'
    BY <1>3, <2>2 DEF OwnInv, Ownership, Apart
  <2> QED BY <1>2, <2>3 DEF OwnInv
<1>5. CASE n # QuitRule
  <2> DEFINE m == Len(stack) - size
             K == Owned(YYSTOS[g + 1], RuleValue(n))
  <2>1. Hands(n, size, y)
    BY <1>1, <1>5, RuleHands DEF QuitRule
  <2>2. size \in 0 .. 7 /\ size < Len(stack)
    BY <1>1, <1>5 DEF Rule, QuitRule
  <2>3. \A x : x \in Popped(m) <=> \E j \in 0 .. size - 1 : x \in Own(j)
    BY <2>2, PoppedIs DEF OwnInv, TypeInv
  <2>4. K = Owned(y, RuleValue(n))
    BY <1>1, <1>5
  <2>5. F \cap K = {} /\ IsInjective(RuleFrees(n))
    BY <2>1, <2>4 DEF Hands
  <2>6. F \cup K = Popped(m)
    <3>1. \A x : x \in F \/ x \in K <=> \E j \in 0 .. size - 1 : x \in Own(j)
      BY <2>1, <2>4 DEF Hands
    <3> HIDE DEF m, F, K
    <3> QED BY <2>3, <3>1
  <2>7. YYSTOS[g + 1] = 31 => Distinct(RuleValue(n).conds)
    BY <1>1, <1>5, <2>1 DEF Hands
  <2>8. Pushed(m, g, RuleValue(n)) /\ StackIn'
    BY <1>1, <1>5 DEF StackInv
  <2>9. Popped(m) \subseteq heap
    <3>1. m + 1 .. Len(stack) \subseteq DOMAIN stack
      <4>1. m \in 1 .. Len(stack) /\ stack \in Seq(Slots) /\ Len(stack) \in Nat
        BY <2>8 DEF Pushed, OwnInv, TypeInv, StackInv, StackIn
      <4> HIDE DEF m
      <4> QED BY <4>1
    <3>2. \A i \in DOMAIN stack : OwnedBySlot(stack[i]) \subseteq heap
      BY DEF OwnInv, Ownership
    <3> HIDE DEF m
    <3> QED BY <3>1, <3>2 DEF Popped
  <2> HIDE DEF F, K, m
  <2>10. heap' = heap \ ((Popped(m) \cup OwnedByLookahead) \ (K \cup OwnedByLookahead'))
    <3>1. heap' = heap \ F
      BY <1>1 DEF F
    <3> QED BY <1>3, <2>5, <2>6, <3>1
  <2>11. ~wild'
    <3>1. ~wild
      BY DEF OwnInv, Ownership
    <3>2. F \ heap = {}
      BY <2>6, <2>9
    <3> QED BY <1>1, <2>5, <3>1, <3>2 DEF F
  <2>12. K \subseteq Popped(m) \cup OwnedByLookahead /\ OwnedByLookahead' \subseteq OwnedByLookahead
         /\ K \cap OwnedByLookahead' = {}
    BY <1>3, <2>6
  <2>13. Ownership' /\ Apart'
    <3>1. K = Owned(YYSTOS[g + 1], RuleValue(n))
      BY DEF K
    <3> QED BY <2>7, <2>8, <2>10, <2>11, <2>12, <3>1, Transfer
  <2> QED BY <1>2, <2>13 DEF OwnInv
<1> QED BY <1>4, <1>5

LEMMA StopOwns ==
  ASSUME OwnInv, Accept \/ Abort
  PROVE  OwnInv'
<1>1. UNCHANGED <<stack, yychar, yylval, yyerrstatus, heap, wild>>
  BY DEF Accept, Abort
<1>2. TypeInv'
  BY StopKeeps DEF OwnInv
<1>3. Ownership' /\ Apart'
  BY <1>1 DEF OwnInv, Ownership, Apart, OwnedByLookahead
<1> QED BY <1>2, <1>3 DEF OwnInv

LEMMA OwnInit ==
  Init => OwnInv
<1> SUFFICES ASSUME Init PROVE OwnInv
  OBVIOUS
<1> DEFINE x == [state |-> 0, val |-> Garbage]
<1>1. stack = <<x>> /\ x.state = 0
  BY DEF Init
<1>2. YYSTOS[0 + 1] = 0
  BY DEF YYSTOS
<1>3. OwnedBySlot(x) = {}
  <2>1. OwnedBySlot(x) = Owned(0, x.val)
    BY <1>1, <1>2 DEF OwnedBySlot
  <2> QED BY <2>1, OwnedIs
<1> HIDE DEF x
<1>4. DOMAIN stack = {1} /\ stack[1] = x
  BY <1>1
<1>5. OwnedByLookahead = {}
  BY DEF Init, OwnedByLookahead
<1>6. UNION {OwnedBySlot(stack[i]) : i \in DOMAIN stack} = {}
  BY <1>3, <1>4
<1>7. Ownership
  BY <1>3, <1>4, <1>5, <1>6 DEF Ownership, Init
<1>8. Apart
  BY <1>1, <1>2, <1>4 DEF Apart
<1> QED BY <1>7, <1>8, TypeInit DEF OwnInv

LEMMA OwnStep ==
  OwnInv /\ [Next]_vars => OwnInv'
<1> SUFFICES ASSUME OwnInv, [Next]_vars PROVE OwnInv'
  OBVIOUS
<1>1. CASE \E type \in Typed : \E x \in Texts(type) : ReadToken([type |-> type, text |-> x])
  BY <1>1, ReadOwns
<1>2. CASE Drive
  BY <1>2, ReduceOwns, ShiftOwns, ErrorOwns, StopOwns DEF Drive
<1>3. CASE UNCHANGED vars
  <2>1. TypeInv'
    BY TypeStep DEF OwnInv
  <2>2. Ownership' /\ Apart'
    BY <1>3 DEF vars, OwnInv, Ownership, Apart, OwnedByLookahead
  <2> QED BY <2>1, <2>2 DEF OwnInv
<1> QED BY <1>1, <1>2, <1>3 DEF Next

\* The text of each name and literal is freed once, by the action that uses it:
\* no action of the grammar reads or frees a string twice, whatever error
\* recovery has thrown away before.
THEOREM OwnershipKept == Spec => []Ownership
<1>1. OwnInv => Ownership
  BY DEF OwnInv
<1> QED BY <1>1, OwnInit, OwnStep, PTL DEF Spec
-----------------------------------------------------------------------------
(* What the stack says of the line.                                        *)

Words == Names \cup Literals
Tokens == [type : 0 .. 24, text : Words \cup {""}]
LF == [type |-> 15, text |-> ""]

CallConds == [attr : Int, comp : Int, value : Words]
CallEvents ==
  [op : {"load"}, table : Words, file : Words, index : BOOLEAN]
    \cup [op : {"select"}, attr : Int, table : Words, conds : Seq(CallConds)]
Events == CallEvents \cup {[op |-> "syntax error"], [op |-> "wrong attribute name"]}

HistoryIn == line \in Seq(Tokens) /\ out \in Seq(Events) /\ began \in 0 .. 3

\* The condition c is what the tokens of line l behind the first f say.
IsCond(l, c, f) ==
  /\ l[f + 1].type = 18 /\ c.attr = AttrNumber(l[f + 1])
  /\ l[f + 2].type \in 19 .. 24 /\ c.comp = CompOf[l[f + 2].type]
  /\ l[f + 3].type \in {16, 17} /\ c.value.text = l[f + 3].text

\* The symbol x with value v stands for the tokens of line l from f + 1 to t.
Spells(l, x, v, f, t) ==
  \/ /\ x \in (3 .. 15) \cup (19 .. 24) /\ t = f + 1 /\ l[t].type = x
  \/ /\ x \in {16, 17, 18} /\ t = f + 1 /\ l[t].type = x /\ v.text = l[t].text
  \/ /\ x = 31 /\ Len(v.conds) \in Nat /\ t = f + 4 * Len(v.conds) - 1
     /\ \A i \in 1 .. Len(v.conds) : IsCond(l, v.conds[i], f + 4 * (i - 1))
  \/ /\ x = 32 /\ t = f + 3 /\ IsCond(l, v, f)
  \/ /\ x = 33 /\ t = f + 1 /\ l[t].type \in {10, 14, 18} /\ v.integer = AttrNumber(l[t])
  \/ /\ x = 34 /\ t = f + 1 /\ l[t].type = 18 /\ v.integer = AttrNumber(l[t])
  \/ /\ x = 35 /\ t = f + 1 /\ l[t].type \in {16, 17} /\ v.text = l[t].text
  \/ /\ x = 36 /\ t = f + 1 /\ l[t].type = 18 /\ v.text = l[t].text
  \/ /\ x = 37 /\ t = f + 1 /\ l[t].type \in 19 .. 24 /\ v.integer = CompOf[l[t].type]

\* The states in a SELECT, in a LOAD, and how many tokens have been read there.
InSelect == {4, 13, 14, 15, 16, 17, 20, 22, 24, 25, 28, 29, 30, 32, 33, 34, 35, 36,
             37, 38, 39, 40, 42, 43, 44, 45}
InLoad == {5, 19, 21, 23, 26, 27, 31, 41}

Reached(s, n) ==
  \/ s = 1 /\ n = 0
  \/ s \in {4, 5, 6, 7} /\ n = 1
  \/ s \in {13, 14, 16, 17, 19} /\ n = 2
  \/ s \in {20, 21} /\ n = 3
  \/ s \in {22, 23} /\ n = 4
  \/ s = 18 /\ n \in {2, 4}
  \/ s \in {24, 25, 26, 27} /\ n = 5
  \/ s = 31 /\ n = 6
  \/ s = 41 /\ n = 7
  \/ s = 29 /\ n = 8
  \/ s = 15 /\ n % 4 = 2
  \/ s = 30 /\ n % 4 = 2 /\ n >= 6
  \/ s \in 34 .. 40 /\ n % 4 = 3 /\ n >= 7
  \/ s \in {28, 42, 43, 44, 45} /\ n % 4 = 0 /\ n >= 8
  \/ s \in {32, 33} /\ n % 4 = 1 /\ n >= 9

Place(l, s, n) ==
  /\ s \in InSelect => l[1].type = 3
  /\ s \in InLoad => l[1].type = 6
  /\ Reached(s, n)

Consumed == IF yychar \in {YYEMPTY, 0} THEN Len(line) ELSE Len(line) - 1

\* The symbols from the third place of the stack st on spell the first n tokens
\* of line l, and at says where each ends.
SpeltIn(l, st, n, at) ==
  /\ at \in [1 .. Len(st) -> Nat]
  /\ Len(st) >= 2 /\ st[2].state = 1
  /\ at[2] = 0 /\ at[Len(st)] = n
  /\ \A i \in 3 .. Len(st) :
       /\ Spells(l, YYSTOS[st[i].state + 1], st[i].val, at[i - 1], at[i])
       /\ Place(l, st[i].state, at[i])
       /\ at[i] <= n

SpeltAt(at) == SpeltIn(line, stack, Consumed, at)

Harmless(o) == \A i \in DOMAIN o : o[i].op = "wrong attribute name"

\* Nothing has been typed since the prompt.
Fresh == Top \in {0, 8} /\ yychar = YYEMPTY /\ line = <<>> /\ out = <<>> /\ yyerrstatus = began

\* The line is well-formed so far.
WellFormed ==
  /\ line # <<>> => ~IllFormed(line)
  /\ Harmless(out) /\ yyerrstatus <= began
  /\ yychar \notin {YYEMPTY, 0} =>
       /\ Shifts(Top, yychar) /\ line # <<>> /\ Last(line).type = yychar
       /\ yychar \in Texted => yylval.text = Last(line).text
  /\ Ended(line) <=> yychar = 15 \/ (yychar = YYEMPTY /\ Top \in {7, 25, 27, 33, 41})

\* The command has been called.
Answered ==
  /\ Top \in {10, 11} /\ yychar = YYEMPTY
  /\ Ended(line) /\ ~IllFormed(line)
  /\ out # <<>> /\ Last(out) \in CallEvents
  /\ \A i \in 1 .. Len(out) - 1 : out[i].op = "wrong attribute name"
  /\ Meaning(line) = <<Last(out)>>

Ill == line \in {BadLine, Append(BadLine, LF)}

\* A token that does not fit has been read.
Misfit ==
  /\ Ill /\ Harmless(out) /\ yyerrstatus <= began
  /\ yychar \notin {YYEMPTY, 0} /\ ~Shifts(Top, yychar) /\ Top # 3
  /\ Ended(line) <=> yychar = 15

Reported ==
  /\ Calls(out) = {}
  /\ Cardinality(Errors(out)) <= 1
  /\ began = 0 => Cardinality(Errors(out)) = 1

\* The rest of the line is thrown away.
Skipping ==
  /\ Ill /\ Reported
  /\ \/ Top = 3 /\ yychar # 0 /\ (Ended(line) <=> yychar = 15)
     \/ Top = 12 /\ yychar = YYEMPTY /\ Ended(line)

\* The input ended within a command.
Cut == Top = 3 /\ yychar = 0

Spelt == WellFormed /\ \E at : SpeltAt(at)

LineInv == Running => Fresh \/ Spelt \/ Answered \/ Misfit \/ Skipping \/ Cut

FullInv == TypeInv /\ HistoryIn /\ LineInv
-----------------------------------------------------------------------------
LEMMA IllIs ==
  ASSUME Ill
  PROVE  /\ line # <<>> /\ IllFormed(line) /\ line \in Seq(Tokens)
         /\ Ended(line) <=> line = Append(BadLine, LF)
<1> DEFINE b == [type |-> T.UNDEFINED, text |-> ""]
<1>1. b \in Tokens /\ b.type = 2 /\ LF \in Tokens /\ LF.type = 15 /\ BadLine = <<b>>
  BY DEF Tokens, T, LF, BadLine
<1> HIDE DEF b
<1>2. /\ BadLine \in Seq(Tokens) /\ Len(BadLine) = 1 /\ BadLine[1] = b /\ BadLine # <<>>
  BY <1>1
<1>3. /\ Append(BadLine, LF) \in Seq(Tokens) /\ Len(Append(BadLine, LF)) = 2
      /\ Append(BadLine, LF)[1] = b /\ Append(BadLine, LF)[2] = LF /\ Append(BadLine, LF) # <<>>
  BY <1>1, <1>2
<1>4. CASE line = BadLine
  <2>1. ~Ended(line)
    BY <1>1, <1>2, <1>4 DEF Ended, Last, T
  <2> QED BY <1>2, <1>3, <1>4, <2>1 DEF IllFormed
<1>5. CASE line = Append(BadLine, LF)
  <2>1. Ended(line)
    BY <1>1, <1>3, <1>5 DEF Ended, Last, T
  <2> QED BY <1>2, <1>3, <1>5, <2>1 DEF IllFormed
<1> QED BY <1>4, <1>5 DEF Ill

LEMMA HarmlessIs ==
  ASSUME NEW o, Harmless(o)
  PROVE  Calls(o) = {} /\ Errors(o) = {}
BY DEF Harmless, Calls, Errors

\* In a state that reads a token the line is not complete.
LEMMA Unanswered ==
  ASSUME FullInv, Running, Top \in Reading, yychar = YYEMPTY
  PROVE  /\ ~Ended(line)
         /\ Spelt \/ (Skipping /\ Top = 3)
<1>1. Spelt \/ Skipping
  <2>1. Fresh \/ Spelt \/ Answered \/ Misfit \/ Skipping \/ Cut
    BY DEF FullInv, LineInv
  <2>2. Top \notin {0, 8, 10, 11}
    BY DEF Reading
  <2>3. ~Fresh
    BY <2>2 DEF Fresh
  <2>4. ~Answered
    BY <2>2 DEF Answered
  <2>5. ~Misfit /\ ~Cut
    BY TypedFacts DEF Misfit, Cut
  <2> QED BY <2>1, <2>3, <2>4, <2>5
<1>2. CASE Spelt
  BY <1>2, TypedFacts DEF Spelt, WellFormed, Reading
<1>3. CASE Skipping
  BY <1>3, TypedFacts DEF Skipping, Reading
<1> QED BY <1>1, <1>2, <1>3

\* What the stack spells j places below its top.
LEMMA SpeltBelow ==
  ASSUME StackInv, NEW at, SpeltAt(at), NEW j \in Nat, j < Len(stack)
  PROVE  LET P(k) == at[Len(stack) - k] IN
         /\ P(j) \in Nat
         /\ S(j) = 1 => P(j) = 0
         /\ S(j) \notin {0, 1} =>
              /\ Spells(line, YYSTOS[S(j) + 1], V(j), P(j + 1), P(j)) /\ Place(line, S(j), P(j))
              /\ P(j + 1) \in Nat
<1> DEFINE i == Len(stack) - j
           k == Len(stack)
<1>1. k \in Nat /\ i \in 1 .. k /\ S(j) = stack[i].state /\ V(j) = stack[i].val
  BY TopIs DEF S, V
<1>2. at \in [1 .. k -> Nat] /\ at[2] = 0 /\ stack[2].state = 1
  BY DEF SpeltAt, SpeltIn
<1>3. S(j) = 1 => i = 2
  <2>1. S(j) = 1 => j + 2 = k
    BY Below
  <2> QED BY <1>1, <2>1
<1>4. S(j) # 0 => j + 1 < k
  BY Below
<1>5. ASSUME S(j) \notin {0, 1}
      PROVE  i \in 3 .. k /\ i - 1 = k - (j + 1) /\ i - 1 \in 1 .. k
  <2>1. i # 2
    BY <1>1, <1>2, <1>5
  <2> HIDE DEF i, k
  <2>2. j + 1 < k
    BY <1>4, <1>5
  <2>3. i = k - j
    BY DEF i, k
  <2> QED BY <1>1, <2>1, <2>2, <2>3
<1>6. ASSUME S(j) \notin {0, 1}
      PROVE  /\ Spells(line, YYSTOS[S(j) + 1], V(j), at[i - 1], at[i]) /\ Place(line, S(j), at[i])
             /\ at[i - 1] \in Nat
  <2>1. i \in 3 .. k /\ i - 1 \in 1 .. k
    BY <1>5, <1>6
  <2>2. Spells(line, YYSTOS[stack[i].state + 1], stack[i].val, at[i - 1], at[i])
        /\ Place(line, stack[i].state, at[i])
    BY <2>1 DEF SpeltAt, SpeltIn
  <2> QED BY <1>1, <1>2, <2>1, <2>2
<1>7. at[i] \in Nat
  BY <1>1, <1>2
<1>8. S(j) \notin {0, 1} => at[i - 1] = at[k - (j + 1)]
  BY <1>5
<1> HIDE DEF k
<1>9. at[i] = at[k - j]
  BY DEF i, k
<1> QED BY <1>1, <1>2, <1>3, <1>6, <1>7, <1>8, <1>9 DEF k

\* A symbol that spells what it is pushed for.
LEMMA Extend ==
  ASSUME NEW at, SpeltAt(at), NEW m, NEW g, NEW v, Pushed(m, g, v), m >= 2,
         line' = line, NEW t \in Nat, t = Consumed', Consumed <= Consumed', Consumed \in Nat,
         Spells(line, YYSTOS[g + 1], v, at[m], t), Place(line, g, t)
  PROVE  \E b : SpeltAt(b)'
<1> DEFINE b == [i \in 1 .. m + 1 |-> IF i <= m THEN at[i] ELSE t]
<1>1. /\ m \in 1 .. Len(stack) /\ m \in Nat /\ Len(stack') = m + 1
      /\ \A i \in 1 .. m : stack'[i] = stack[i]
      /\ stack'[m + 1] = [state |-> g, val |-> v]
  <2>1. Len(stack) \in Nat \/ m \in 1 .. Len(stack)
    BY DEF Pushed
  <2> QED BY <2>1 DEF Pushed
<1>2. /\ at \in [1 .. Len(stack) -> Nat] /\ at[2] = 0 /\ stack[2].state = 1
      /\ \A i \in 3 .. Len(stack) :
           /\ Spells(line, YYSTOS[stack[i].state + 1], stack[i].val, at[i - 1], at[i])
           /\ Place(line, stack[i].state, at[i])
           /\ at[i] <= Consumed
  BY DEF SpeltAt, SpeltIn
<1>5. /\ b \in [1 .. m + 1 -> Nat] /\ b[m + 1] = t
      /\ \A i \in 1 .. m : b[i] = at[i]
  <2> DEFINE k == Len(stack)
  <2>1. m \in Nat /\ (\A i \in 1 .. m : i \in 1 .. k) /\ at \in [1 .. k -> Nat]
    <3>1. k \in Nat
      OBVIOUS
    <3> HIDE DEF k
    <3>2. m \in 1 .. k
      BY <1>1 DEF k
    <3> QED BY <1>1, <1>2, <3>1, <3>2 DEF k
  <2> HIDE DEF k
  <2>2. \A i \in 1 .. m + 1 : (i <= m <=> i \in 1 .. m) /\ (~(i <= m) <=> i = m + 1)
    BY <2>1
  <2>3. \A i \in 1 .. m : at[i] \in Nat
    BY <2>1
  <2>4. b \in [1 .. m + 1 -> Nat]
    BY <2>2, <2>3
  <2>5. m + 1 \in 1 .. m + 1 /\ ~(m + 1 <= m) /\ \A i \in 1 .. m : i \in 1 .. m + 1 /\ i <= m
    BY <2>1
  <2> QED BY <2>4, <2>5
<1> HIDE DEF b
<1>6. stack'[2].state = 1 /\ b[2] = 0 /\ Len(stack') >= 2
  BY <1>1, <1>2, <1>5
<1>7. ASSUME NEW i \in 3 .. m + 1
      PROVE  /\ Spells(line, YYSTOS[stack'[i].state + 1], stack'[i].val, b[i - 1], b[i])
             /\ Place(line, stack'[i].state, b[i])
             /\ b[i] <= Consumed'
  <2>1. CASE i \in 3 .. m
    <3>1. /\ i \in 3 .. Len(stack) /\ i \in 1 .. m /\ i - 1 \in 1 .. m
          /\ stack'[i] = stack[i] /\ b[i] = at[i] /\ b[i - 1] = at[i - 1] /\ at[i] \in Nat
      BY <1>1, <1>2, <1>5, <2>1
    <3>2. at[i] <= Consumed'
      BY <1>2, <3>1
    <3> QED BY <1>2, <3>1, <3>2
  <2>2. CASE i = m + 1
    <3>1. b[i] = t /\ b[i - 1] = at[m]
      BY <1>1, <1>5, <2>2
    <3> QED BY <1>1, <2>2, <3>1
  <2> QED BY <1>1, <2>1, <2>2
<1>8. SpeltIn(line', stack', Consumed', b)
  BY <1>1, <1>5, <1>6, <1>7 DEF SpeltIn
<1> QED BY <1>8 DEF SpeltAt

LEMMA TopPlace ==
  ASSUME StackInv, NEW at, SpeltAt(at)
  PROVE  Top # 0 /\ Place(line, Top, Consumed)
<1> DEFINE k == Len(stack)
<1>1. k \in Nat /\ k >= 2 /\ Top = stack[k].state /\ stack[2].state = 1
      /\ at[2] = 0 /\ at[k] = Consumed
  BY TopIs DEF SpeltAt, SpeltIn, Top, Last
<1>2. Top # 0
  <2>1. Edge(stack[k - 1].state, stack[k].state)
    <3>1. k \in 2 .. k
      BY <1>1
    <3> QED BY <3>1 DEF StackInv, Chained
  <2>2. ASSUME NEW p, Edge(p, Top) PROVE Top # 0
    BY <2>2 DEF Edge
  <2> QED BY <1>1, <2>1, <2>2
<1>3. CASE k = 2
  <2>1. Top = 1 /\ Consumed = 0
    BY <1>1, <1>3
  <2> QED BY <1>2, <2>1 DEF Place, Reached, InSelect, InLoad
<1>4. CASE k >= 3
  <2>1. k \in 3 .. k
    BY <1>1, <1>4
  <2>2. Place(line, stack[k].state, at[k])
    BY <2>1 DEF SpeltAt, SpeltIn
  <2> QED BY <1>1, <1>2, <2>2
<1> HIDE DEF k
<1>5. k = 2 \/ k >= 3
  BY <1>1
<1> QED BY <1>3, <1>4, <1>5

\* How many tokens of a line lie before the states that look at one.
LEMMA ReachedIs ==
  ASSUME NEW n
  PROVE  /\ Reached(4, n) => n = 1
         /\ Reached(16, n) => n = 2
         /\ Reached(20, n) => n = 3
         /\ Reached(22, n) => n = 4
         /\ Reached(5, n) => n = 1
         /\ Reached(19, n) => n = 2
         /\ Reached(21, n) => n = 3
         /\ Reached(23, n) => n = 4
         /\ Reached(26, n) => n = 5
         /\ Reached(31, n) => n = 6
         /\ Reached(24, n) => n = 5
         /\ Reached(32, n) => n % 4 = 1 /\ n >= 9
         /\ Reached(30, n) => n % 4 = 2 /\ n >= 6
         /\ Reached(40, n) => n % 4 = 3 /\ n >= 7
         /\ Reached(28, n) => n % 4 = 0 /\ n >= 8
<1>1. Reached(4, n) => n = 1
  BY DEF Reached
<1>2. Reached(16, n) => n = 2
  BY DEF Reached
<1>3. Reached(20, n) => n = 3
  BY DEF Reached
<1>4. Reached(22, n) => n = 4
  BY DEF Reached
<1>5. Reached(5, n) => n = 1
  BY DEF Reached
<1>6. Reached(19, n) => n = 2
  BY DEF Reached
<1>7. Reached(21, n) => n = 3
  BY DEF Reached
<1>8. Reached(23, n) => n = 4
  BY DEF Reached
<1>9. Reached(26, n) => n = 5
  BY DEF Reached
<1>10. Reached(31, n) => n = 6
  BY DEF Reached
<1>11. Reached(24, n) => n = 5
  BY DEF Reached
<1>12. Reached(32, n) => n % 4 = 1 /\ n >= 9
  BY DEF Reached
<1>13. Reached(30, n) => n % 4 = 2 /\ n >= 6
  BY DEF Reached
<1>14. Reached(40, n) => n % 4 = 3 /\ n >= 7
  BY DEF Reached
<1>15. Reached(28, n) => n % 4 = 0 /\ n >= 8
  BY DEF Reached
<1> QED BY <1>1, <1>2, <1>3, <1>4, <1>5, <1>6, <1>7, <1>8,
            <1>9, <1>10, <1>11, <1>12, <1>13, <1>14, <1>15

\* The states of the automaton know what may follow in a line.
LEMMA FollowIs ==
  ASSUME NEW l \in Seq(Tokens), NEW p \in Reading, p # 3, Place(l, p, Len(l)),
         NEW x \in Typed, x # 0
  PROVE  x \in Follow(l) <=> Shifts(p, x)
<1> DEFINE n == Len(l)
<1>1. x \in 3 .. 24 /\ n \in Nat
  BY TypedFacts
<1>2. Shifts(p, x) <=> \E s : Moves(p, x, s)
  <2>1. x \in 0 .. 24
    BY <1>1
  <2>2. /\ Shifts(p, x) => Moves(p, x, ShiftTo(p, x))
        /\ \A s : Moves(p, x, s) => Shifts(p, x)
    BY <2>1, ShiftIs
  <2> QED BY <2>2
<1>3. /\ p \in {1, 4, 5, 16, 19, 20, 21, 22, 23, 24, 26, 28, 30, 31, 32, 40} /\ Reached(p, n)
      /\ p \in InSelect => l[1].type = 3
      /\ p \in InLoad => l[1].type = 6
  BY DEF Reading, Place
<1>4. n = 0 => Follow(l) = {3, 6, 9, 15}
  BY DEF Follow, T
<1>5. n > 0 /\ l[1].type = 3 =>
        /\ n = 1 => Follow(l) = {18, 14, 10}
        /\ n = 2 => Follow(l) = {4}
        /\ n = 3 => Follow(l) = {18}
        /\ n = 4 => Follow(l) = {5, 15}
        /\ n > 4 => Follow(l) = CondTokens[((n - 5) % 4) + 1]
  <2> SUFFICES ASSUME n > 0, l[1].type = 3
               PROVE  /\ n = 1 => Follow(l) = {18, 14, 10}
                      /\ n = 2 => Follow(l) = {4}
                      /\ n = 3 => Follow(l) = {18}
                      /\ n = 4 => Follow(l) = {5, 15}
                      /\ n > 4 => Follow(l) = CondTokens[((n - 5) % 4) + 1]
    OBVIOUS
  <2>1. n # 0 /\ n \in Nat
    BY <1>1
  <2>2. n = 1 => Follow(l) = {18, 14, 10}
    BY <2>1 DEF Follow, T
  <2>3. n = 2 => Follow(l) = {4}
    BY <2>1 DEF Follow, T
  <2>4. n = 3 => Follow(l) = {18}
    BY <2>1 DEF Follow, T
  <2>5. n = 4 => Follow(l) = {5, 15}
    BY <2>1 DEF Follow, T
  <2>6. n > 4 => Follow(l) = CondTokens[((n - 5) % 4) + 1]
    BY <2>1 DEF Follow, T
  <2> QED BY <2>2, <2>3, <2>4, <2>5, <2>6
<1>6. n > 0 /\ l[1].type = 6 =>
        Follow(l) = <<{18}, {4}, {17}, {7, 15}, {8}, {15}>>[n]
  BY <1>1 DEF Follow, T
<1>7. CondTokens = <<{18}, Comparators, {16, 17}, {11, 15}>>
  BY DEF CondTokens, T
<1> HIDE DEF n
<1>8. CASE p = 1
  BY <1>1, <1>2, <1>3, <1>4, <1>8 DEF Reached, Moves
<1>9. CASE p \in {4, 16, 20, 22}
  <2>1. l[1].type = 3 /\ (p = 4 => n = 1) /\ (p = 16 => n = 2) /\ (p = 20 => n = 3)
        /\ (p = 22 => n = 4)
    <3>1. l[1].type = 3
      BY <1>3, <1>9 DEF InSelect
    <3>2. (p = 4 => n = 1) /\ (p = 16 => n = 2)
      BY <1>3, ReachedIs
    <3>3. (p = 20 => n = 3) /\ (p = 22 => n = 4)
      BY <1>3, ReachedIs
    <3> QED BY <3>1, <3>2, <3>3
  <2>2. CASE p = 4
    BY <1>1, <1>2, <1>5, <2>1, <2>2 DEF Moves
  <2>3. CASE p = 16
    BY <1>1, <1>2, <1>5, <2>1, <2>3 DEF Moves
  <2>4. CASE p = 20
    BY <1>1, <1>2, <1>5, <2>1, <2>4 DEF Moves
  <2>5. CASE p = 22
    BY <1>1, <1>2, <1>5, <2>1, <2>5 DEF Moves
  <2> QED BY <1>9, <2>2, <2>3, <2>4, <2>5
<1>10. CASE p \in {5, 19, 21, 23, 26, 31}
  <2>1. l[1].type = 6 /\ (p = 5 => n = 1) /\ (p = 19 => n = 2) /\ (p = 21 => n = 3)
        /\ (p = 23 => n = 4) /\ (p = 26 => n = 5) /\ (p = 31 => n = 6)
    <3>1. l[1].type = 6
      BY <1>3, <1>10 DEF InLoad
    <3>2. (p = 5 => n = 1) /\ (p = 19 => n = 2) /\ (p = 21 => n = 3)
      BY <1>3, ReachedIs
    <3>3. (p = 23 => n = 4) /\ (p = 26 => n = 5) /\ (p = 31 => n = 6)
      BY <1>3, ReachedIs
    <3> QED BY <3>1, <3>2, <3>3
  <2>2. /\ p = 5 => Follow(l) = {18}
        /\ p = 19 => Follow(l) = {4}
        /\ p = 21 => Follow(l) = {17}
        /\ p = 23 => Follow(l) = {7, 15}
        /\ p = 26 => Follow(l) = {8}
        /\ p = 31 => Follow(l) = {15}
    BY <1>1, <1>6, <1>10, <2>1, SMTT(40)
  <2> QED BY <1>1, <1>2, <1>10, <2>2 DEF Moves
<1>11. CASE p \in {24, 28, 30, 32, 40}
  <2>1. /\ l[1].type = 3 /\ n > 4
        /\ p \in {24, 32} => n % 4 = 1
        /\ p = 30 => n % 4 = 2
        /\ p = 40 => n % 4 = 3
        /\ p = 28 => n % 4 = 0
    <3>1. l[1].type = 3
      BY <1>3, <1>11 DEF InSelect
    <3>2. p = 24 => n = 5
      BY <1>3, ReachedIs
    <3>3. p = 32 => n % 4 = 1 /\ n >= 9
      BY <1>3, ReachedIs
    <3>4. p = 30 => n % 4 = 2 /\ n >= 6
      BY <1>3, ReachedIs
    <3>5. p = 40 => n % 4 = 3 /\ n >= 7
      BY <1>3, ReachedIs
    <3>6. p = 28 => n % 4 = 0 /\ n >= 8
      BY <1>3, ReachedIs
    <3>7. n > 4
      BY <1>1, <1>11, <3>2, <3>3, <3>4, <3>5, <3>6
    <3>8. n = 5 => n % 4 = 1
      BY <1>1
    <3> QED BY <1>11, <3>1, <3>2, <3>3, <3>4, <3>5, <3>6, <3>7, <3>8
  <2>2. /\ n % 4 = 1 => (n - 5) % 4 = 0
        /\ n % 4 = 2 => (n - 5) % 4 = 1
        /\ n % 4 = 3 => (n - 5) % 4 = 2
        /\ n % 4 = 0 => (n - 5) % 4 = 3
    BY <1>1
  <2>3. /\ p \in {24, 32} => Follow(l) = {18}
        /\ p = 30 => Follow(l) = Comparators
        /\ p = 40 => Follow(l) = {16, 17}
        /\ p = 28 => Follow(l) = {11, 15}
    BY <1>1, <1>5, <1>7, <2>1, <2>2
  <2>4. x \in Comparators <=> x \in 19 .. 24
    BY <1>1, SqlParserAssumption DEF Typed, T
  <2> QED BY <1>1, <1>2, <1>11, <2>3, <2>4 DEF Moves
<1> QED BY <1>3, <1>8, <1>9, <1>10, <1>11

LEMMA BadLineIs ==
  /\ BadLine \in Seq(Tokens) /\ Len(BadLine) = 1 /\ BadLine[1].type = 2 /\ BadLine # <<>>
  /\ \A l \in Seq(Tokens) : l # <<>> /\ ~IllFormed(l) => l # BadLine
  /\ ~Ended(BadLine)
  /\ LF \in Tokens /\ Append(BadLine, LF) \in Seq(Tokens) /\ Append(BadLine, LF) # BadLine
  /\ Ended(Append(BadLine, LF)) /\ Append(BadLine, LF) # <<>>
<1> DEFINE b == [type |-> T.UNDEFINED, text |-> ""]
           a == Append(BadLine, LF)
<1>1. /\ b \in Tokens /\ b.type = 2 /\ BadLine = <<b>>
      /\ LF \in Tokens /\ LF.type = 15
  BY DEF Tokens, T, BadLine, LF
<1> HIDE DEF b
<1>2. BadLine \in Seq(Tokens) /\ Len(BadLine) = 1 /\ BadLine[1] = b /\ BadLine # <<>>
  BY <1>1
<1>3. IllFormed(BadLine)
  BY DEF IllFormed
<1>4. ~Ended(BadLine)
  BY <1>1, <1>2 DEF Ended, Last, T
<1>5. a \in Seq(Tokens) /\ Len(a) = 2 /\ a[2] = LF /\ a # <<>>
  BY <1>1, <1>2
<1> HIDE DEF a
<1>6. Ended(a) /\ a # BadLine
  BY <1>1, <1>2, <1>5 DEF Ended, Last, T
<1> QED BY <1>1, <1>2, <1>3, <1>4, <1>5, <1>6 DEF a

\* What is known of a line stays so when a token is added.
LEMMA LineGrows ==
  ASSUME NEW l \in Seq(Tokens), NEW t \in Tokens, NEW st \in Seq(Slots), NEW at,
         SpeltIn(l, st, Len(l), at)
  PROVE  SpeltIn(Append(l, t), st, Len(l), at)
<1> DEFINE a == Append(l, t)
           n == Len(l)
           k == Len(st)
<1>1. n \in Nat /\ k \in Nat /\ \A i \in 1 .. n : a[i] = l[i]
  OBVIOUS
<1>2. /\ at \in [1 .. k -> Nat] /\ k >= 2 /\ st[2].state = 1 /\ at[2] = 0 /\ at[k] = n
      /\ \A i \in 3 .. k :
           /\ Spells(l, YYSTOS[st[i].state + 1], st[i].val, at[i - 1], at[i])
           /\ Place(l, st[i].state, at[i])
           /\ at[i] <= n
  BY DEF SpeltIn
<1> HIDE DEF a, n, k
<1>3. ASSUME NEW c, NEW f \in Nat, f + 3 <= n, IsCond(l, c, f)
      PROVE  IsCond(a, c, f)
  <2>1. f + 1 \in 1 .. n /\ f + 2 \in 1 .. n /\ f + 3 \in 1 .. n
    BY <1>1, <1>3
  <2>2. a[f + 1] = l[f + 1] /\ a[f + 2] = l[f + 2] /\ a[f + 3] = l[f + 3]
    BY <1>1, <2>1
  <2> QED BY <1>3, <2>2 DEF IsCond
<1>4. ASSUME NEW x, NEW v, NEW f \in Nat, NEW e \in Nat, e <= n, Spells(l, x, v, f, e)
      PROVE  Spells(a, x, v, f, e)
  <2>1. CASE x = 31
    <3>1. /\ Len(v.conds) \in Nat /\ e = f + 4 * Len(v.conds) - 1
          /\ \A i \in 1 .. Len(v.conds) : IsCond(l, v.conds[i], f + 4 * (i - 1))
      BY <1>4, <2>1 DEF Spells
    <3> DEFINE L == Len(v.conds)
    <3>2. ASSUME NEW i \in 1 .. L PROVE IsCond(a, v.conds[i], f + 4 * (i - 1))
      <4>1. IsCond(l, v.conds[i], f + 4 * (i - 1))
        BY <3>1
      <4>2. L \in Nat /\ e = f + 4 * L - 1
        BY <3>1
      <4> HIDE DEF L
      <4>3. f + 4 * (i - 1) \in Nat /\ f + 4 * (i - 1) + 3 <= n
        BY <1>1, <1>4, <4>2
      <4> QED BY <1>3, <4>1, <4>3
    <3> QED BY <2>1, <3>1, <3>2 DEF Spells
  <2>2. CASE x = 32
    <3>1. e = f + 3 /\ IsCond(l, v, f)
      BY <1>4, <2>2 DEF Spells
    <3>2. IsCond(a, v, f)
      BY <1>3, <1>4, <3>1
    <3> QED BY <2>2, <3>1, <3>2 DEF Spells
  <2>3. CASE x \notin {31, 32}
    <3>1. e = f + 1
      BY <1>4, <2>3 DEF Spells
    <3>2. e \in 1 .. n
      BY <1>1, <1>4, <3>1
    <3>3. a[e] = l[e]
      BY <1>1, <3>2
    <3> QED BY <1>4, <2>3, <3>3 DEF Spells
  <2> QED BY <2>1, <2>2, <2>3
<1>5. ASSUME NEW s, NEW e \in Nat, e <= n, Place(l, s, e)
      PROVE  Place(a, s, e)
  <2>1. CASE e = 0
    <3>1. Reached(s, 0)
      BY <1>5, <2>1 DEF Place
    <3>2. s = 1
      BY <3>1 DEF Reached
    <3> QED BY <1>5, <3>2 DEF Place, InSelect, InLoad
  <2>2. CASE e # 0
    <3>1. a[1] = l[1]
      BY <1>1, <1>5, <2>2
    <3> QED BY <1>5, <3>1 DEF Place
  <2> QED BY <2>1, <2>2
<1>6. ASSUME NEW i \in 3 .. k
      PROVE  /\ Spells(a, YYSTOS[st[i].state + 1], st[i].val, at[i - 1], at[i])
             /\ Place(a, st[i].state, at[i])
             /\ at[i] <= n
  <2>1. i \in 1 .. k /\ i - 1 \in 1 .. k
    BY <1>1
  <2>2. at[i] \in Nat /\ at[i - 1] \in Nat
    BY <1>2, <2>1
  <2> QED BY <1>2, <1>4, <1>5, <2>2
<1>7. SpeltIn(a, st, n, at)
  <2> USE DEF k
  <2> QED BY <1>2, <1>6 DEF SpeltIn
<1> QED BY <1>7 DEF a, n

LEMMA TypedTokens ==
  ASSUME NEW type \in Typed, NEW x \in Texts(type)
  PROVE  [type |-> type, text |-> x] \in Tokens /\ (type = 15 => x = "")
<1>1. type \in 0 .. 24
  BY TypedFacts
<1>2. x \in Words \cup {""} /\ (type = 15 => x = "")
  <2>1. type = 18 => Texts(type) = Names
    BY DEF Texts, T
  <2>2. type = 16 => Texts(type) = Literals
    BY DEF Texts, T
  <2>3. type = 17 => Texts(type) = Literals
    BY DEF Texts, T
  <2>4. type \notin {16, 17, 18} => Texts(type) = {""}
    BY DEF Texts, T
  <2>5. type = 18 \/ type = 16 \/ type = 17 => x \in Words
    BY <2>1, <2>2, <2>3 DEF Words
  <2>6. type # 18 /\ type # 16 /\ type # 17 => x = ""
    BY <2>4
  <2>7. type = 15 => x = ""
    <3> SUFFICES ASSUME type = 15 PROVE x = ""
      OBVIOUS
    <3>1. type # 18 /\ type # 16 /\ type # 17
      BY <1>1
    <3> QED BY <2>6, <3>1
  <2> QED BY <2>5, <2>6, <2>7
<1> QED BY <1>1, <1>2 DEF Tokens

LEMMA ReadLine ==
  ASSUME FullInv, NEW type \in Typed, NEW x \in Texts(type),
         ReadToken([type |-> type, text |-> x])
  PROVE  FullInv'
<1> DEFINE t == [type |-> type, text |-> x]
<1>1. /\ t \in Tokens /\ t.type = type /\ type \in 0 .. 24 /\ type # 2 /\ type # YYEMPTY
      /\ t.text = x /\ (type = 15 => t = LF)
  <2>1. type \in 0 .. 24 /\ type # 2 /\ type # YYEMPTY
    BY TypedFacts
  <2>2. t \in Tokens /\ (type = 15 => x = "")
    BY TypedTokens
  <2>3. t.type = type /\ t.text = x
    OBVIOUS
  <2>4. type = 15 => t = LF
    BY <2>2 DEF LF
  <2> QED BY <2>1, <2>2, <2>3, <2>4
<1>2. /\ Running /\ yychar = YYEMPTY /\ Top \in Reading
      /\ yychar' = type /\ line' = Noted(line, t)
      /\ UNCHANGED <<stack, yyerrstatus, wild, result, out, began>>
      /\ type \in Texted => yylval'.text = x
  BY TopIs, PactIs DEF ReadToken, Wants, FullInv, TypeInv, Texted, StrVal
<1> HIDE DEF t
<1>3. line \in Seq(Tokens) /\ out \in Seq(Events) /\ began \in 0 .. 3
  BY DEF FullInv, HistoryIn
<1>4. TypeInv' /\ Top' = Top /\ ~Ended(line)
  BY <1>2, ReadKeeps, Unanswered DEF FullInv, Top, t
<1>5. /\ type = 0 => line' = line
      /\ type # 0 /\ line # BadLine /\ type \in Follow(line) => line' = Append(line, t)
      /\ type # 0 /\ ~(line # BadLine /\ type \in Follow(line)) =>
           line' = IF type = 15 THEN Append(BadLine, LF) ELSE BadLine
  BY <1>1, <1>2 DEF Noted, T
<1>6. HistoryIn'
  <2>1. line' \in Seq(Tokens)
    <3>1. Append(line, t) \in Seq(Tokens)
      BY <1>1, <1>3
    <3>2. BadLine \in Seq(Tokens) /\ Append(BadLine, LF) \in Seq(Tokens)
      BY BadLineIs
    <3>3. line' \in {line, Append(line, t), BadLine, Append(BadLine, LF)}
      BY <1>5
    <3> QED BY <1>3, <3>1, <3>2, <3>3
  <2> QED BY <1>2, <1>3, <2>1 DEF HistoryIn
<1>7. ASSUME Spelt PROVE Spelt' \/ Misfit'
  <2>0. PICK at : SpeltAt(at)
    BY <1>7 DEF Spelt
  <2>1. /\ Harmless(out) /\ yyerrstatus <= began /\ (line # <<>> => ~IllFormed(line))
        /\ SpeltIn(line, stack, Len(line), at)
        /\ Place(line, Top, Len(line)) /\ Top \in Reading /\ Top # 3
    <3>1. Place(line, Top, Consumed) /\ Consumed = Len(line)
      BY <1>2, <2>0, TopPlace DEF Consumed, FullInv, TypeInv
    <3>2. Top # 3
      <4>1. Reached(Top, Consumed)
        BY <3>1 DEF Place
      <4>2. ASSUME NEW n, Reached(3, n) PROVE FALSE
        BY <4>2 DEF Reached
      <4> QED BY <4>1, <4>2
    <3> QED BY <1>2, <1>7, <2>0, <3>1, <3>2 DEF Spelt, WellFormed, SpeltAt
  <2>2. line # BadLine
    <3>1. line = <<>> => line # BadLine
      BY BadLineIs
    <3> QED BY <1>3, <2>1, <3>1, BadLineIs
  <2>3. CASE type = 0
    <3>1. line' = line /\ yychar' = 0 /\ Consumed' = Len(line')
      BY <1>2, <1>5, <2>3 DEF Consumed
    <3>2. SpeltAt(at)'
      BY <1>2, <2>1, <3>1 DEF SpeltAt
    <3>3. WellFormed'
      BY <1>2, <1>4, <2>1, <3>1, TypedFacts DEF WellFormed, Ended
    <3> QED BY <3>2, <3>3 DEF Spelt
  <2>4. ASSUME type # 0 PROVE type \in Follow(line) <=> Shifts(Top, type)
    BY <1>3, <2>1, <2>4, FollowIs
  <2>5. CASE type # 0 /\ type \in Follow(line)
    <3>1. line' = Append(line, t) /\ Shifts(Top', yychar') /\ yychar' = type
      BY <1>2, <1>4, <1>5, <2>2, <2>4, <2>5
    <3> DEFINE n == Len(line)
    <3>2. /\ n \in Nat /\ Len(line') = n + 1 /\ line'[n + 1] = t /\ line' # <<>>
          /\ \A i \in 1 .. n : line'[i] = line[i]
      BY <1>1, <1>3, <3>1
    <3>3. Last(line') = t
      BY <3>2 DEF Last
    <3>4. Consumed' = Len(line)
      <4>1. Consumed' = Len(line') - 1
        BY <1>1, <1>2, <2>5 DEF Consumed
      <4> HIDE DEF n
      <4>2. Len(line') - 1 = n
        BY <3>2
      <4> QED BY <4>1, <4>2 DEF n
    <3>5. SpeltAt(at)'
      <4>1. SpeltIn(line', stack', Len(line), at)
        BY <1>1, <1>2, <1>3, <2>1, <3>1, LineGrows DEF FullInv, TypeInv, StackInv, StackIn
      <4> QED BY <3>4, <4>1 DEF SpeltAt
    <3>6. ~IllFormed(line')
      <4>0. BadLine[1].type = 2
        BY BadLineIs
      <4>1. CASE line = <<>>
        <5>1. line'[1] = t
          BY <3>2, <4>1
        <5> QED BY <1>1, <4>0, <5>1 DEF IllFormed
      <4>2. CASE line # <<>>
        <5>1. 1 \in 1 .. n
          BY <1>3, <4>2
        <5>2. line'[1] = line[1]
          BY <3>2, <5>1
        <5> QED BY <2>1, <4>2, <5>2 DEF IllFormed
      <4> QED BY <4>1, <4>2
    <3>7. Ended(line') <=> yychar' = 15
      BY <1>1, <3>1, <3>2, <3>3 DEF Ended, T
    <3>8. WellFormed'
      BY <1>1, <1>2, <2>1, <2>5, <3>1, <3>2, <3>3, <3>6, <3>7 DEF WellFormed
    <3> QED BY <3>5, <3>8 DEF Spelt
  <2>6. CASE type # 0 /\ type \notin Follow(line)
    <3>1. line' = IF type = 15 THEN Append(BadLine, LF) ELSE BadLine
      BY <1>5, <2>6
    <3>2. Ill'
      BY <3>1 DEF Ill
    <3>5. Ended(line') <=> yychar' = 15
      BY <1>2, <3>1, BadLineIs
    <3> QED BY <1>1, <1>2, <1>4, <2>1, <2>4, <2>6, <3>2, <3>5 DEF Misfit
  <2> QED BY <2>3, <2>5, <2>6
<1>8. ASSUME Skipping, Top = 3 PROVE Skipping' \/ Cut'
  <2>1. line = BadLine
    BY <1>4, <1>8, IllIs DEF Skipping, Ill
  <2>2. Reported'
    BY <1>2, <1>8 DEF Skipping, Reported
  <2>3. CASE type = 0
    BY <1>2, <1>4, <1>8, <2>3 DEF Cut
  <2>4. CASE type # 0
    <3>1. line' = IF type = 15 THEN Append(BadLine, LF) ELSE BadLine
      BY <1>5, <2>1, <2>4
    <3>2. Ill'
      BY <3>1 DEF Ill
    <3>3. Ended(line') <=> yychar' = 15
      BY <1>2, <3>1, BadLineIs
    <3> QED BY <1>2, <1>4, <1>8, <2>2, <2>4, <3>2, <3>3 DEF Skipping
  <2> QED BY <2>3, <2>4
<1>9. Spelt \/ (Skipping /\ Top = 3)
  BY <1>2, Unanswered
<1>10. LineInv'
  BY <1>7, <1>8, <1>9 DEF LineInv
<1> QED BY <1>4, <1>6, <1>10 DEF FullInv

\* A token that the automaton takes leads it on in the line.
LEMMA MovePlace ==
  ASSUME NEW l, NEW p, NEW x \in 3 .. 24, NEW s, Moves(p, x, s), NEW m \in Nat,
         Place(l, p, m), l[m + 1].type = x
  PROVE  Place(l, s, m + 1)
<1>1. Reached(p, m) /\ (p \in InSelect => l[1].type = 3) /\ (p \in InLoad => l[1].type = 6)
  BY DEF Place
<1>2. CASE p = 1
  <2>1. m = 0
    BY <1>1, <1>2 DEF Reached
  <2>2. l[1].type = x /\ m + 1 = 1
    BY <2>1
  <2>3. <<x, s>> \in {<<3, 4>>, <<6, 5>>, <<9, 6>>, <<15, 7>>}
    BY <1>2 DEF Moves
  <2> QED BY <2>2, <2>3 DEF Place, Reached, InSelect, InLoad
<1>3. CASE p # 1
  <2>1. p # 3
    <3>1. ASSUME Reached(3, m) PROVE FALSE
      BY <3>1 DEF Reached
    <3> QED BY <1>1, <3>1
  <2>2. (s \in InSelect => p \in InSelect \/ p = 20) /\ (s \in InLoad => p \in InLoad)
    BY <1>3, <2>1 DEF Moves, InSelect, InLoad
  <2>3. Reached(s, m + 1)
    <3>1. CASE p \in {4, 5, 16, 19, 20, 21, 22, 23, 26, 31}
      BY <1>1, <3>1 DEF Moves, Reached
    <3>2. CASE p = 24
      <4>1. m = 5 /\ s = 15
        BY <1>1, <3>2 DEF Moves, Reached
      <4> QED BY <4>1 DEF Reached
    <3>3. CASE p = 32
      <4>1. m % 4 = 1 /\ s = 15
        BY <1>1, <3>3 DEF Moves, Reached
      <4>2. (m + 1) % 4 = 2
        BY <4>1
      <4> QED BY <4>1, <4>2 DEF Reached
    <3>4. CASE p = 28
      <4>1. m % 4 = 0 /\ m >= 8 /\ s \in {32, 33}
        BY <1>1, <3>4 DEF Moves, Reached
      <4>2. (m + 1) % 4 = 1 /\ m + 1 >= 9
        BY <4>1
      <4> QED BY <4>1, <4>2 DEF Reached
    <3>5. CASE p = 30
      <4>1. m % 4 = 2 /\ m >= 6 /\ s \in 34 .. 39
        BY <1>1, <3>5 DEF Moves, Reached
      <4>2. (m + 1) % 4 = 3 /\ m + 1 >= 7
        BY <4>1
      <4> QED BY <4>1, <4>2 DEF Reached
    <3>6. CASE p = 40
      <4>1. m % 4 = 3 /\ m >= 7 /\ s \in {43, 44}
        BY <1>1, <3>6 DEF Moves, Reached
      <4>2. (m + 1) % 4 = 0 /\ m + 1 >= 8
        BY <4>1
      <4> QED BY <4>1, <4>2 DEF Reached
    <3>7. p \in {4, 5, 16, 19, 20, 21, 22, 23, 26, 31, 24, 32, 28, 30, 40}
      BY <1>3, <2>1 DEF Moves
    <3> QED BY <3>1, <3>2, <3>3, <3>4, <3>5, <3>6, <3>7
  <2> QED BY <1>1, <2>2, <2>3 DEF Place, InSelect
<1> QED BY <1>2, <1>3

LEMMA ShiftLine ==
  ASSUME FullInv, Shift
  PROVE  FullInv'
<1>1. PICK g : /\ Top \in Reading /\ yychar \in 3 .. 24 /\ yychar \in Typed
               /\ Moves(Top, yychar, g) /\ g \in States /\ Edge(Top, g)
               /\ YYSTOS[g + 1] = yychar
               /\ Pushed(Len(stack), g, yylval) /\ StackInv' /\ Top' = g
               /\ yychar' = YYEMPTY
               /\ yyerrstatus' = IF yyerrstatus > 0 THEN yyerrstatus - 1 ELSE 0
  BY ShiftFacts DEF FullInv
<1>2. /\ Running /\ Shifts(Top, yychar)
      /\ UNCHANGED <<heap, yylval, wild, result, line, out, began>>
  BY DEF Shift, ShiftsNow, Decided, history
<1>3. TypeInv' /\ HistoryIn'
  <2>1. HistoryIn'
    BY <1>2 DEF FullInv, HistoryIn
  <2> QED BY <2>1, ShiftKeeps DEF FullInv
<1>4. Spelt \/ (Skipping /\ Top = 3)
  <2>1. Fresh \/ Spelt \/ Answered \/ Misfit \/ Skipping \/ Cut
    BY <1>2 DEF FullInv, LineInv
  <2>2. yychar # YYEMPTY /\ yychar # 0
    BY <1>1, TypedFacts
  <2> QED BY <1>2, <2>1, <2>2 DEF Fresh, Answered, Misfit, Skipping, Cut
<1>5. CASE Skipping /\ Top = 3
  <2>1. yychar = 15 /\ g = 12
    BY <1>1, <1>5 DEF Moves
  <2>2. Ended(line)
    BY <1>5, <2>1 DEF Skipping
  <2>3. Skipping'
    <3>1. Ill' /\ Reported' /\ Ended(line')
      BY <1>2, <1>5, <2>2 DEF Skipping, Ill, Reported
    <3> QED BY <1>1, <2>1, <3>1 DEF Skipping
  <2> QED BY <1>3, <2>3 DEF FullInv, LineInv
<1>6. CASE Spelt
  <2> DEFINE n == Len(line)
             k == Len(stack)
  <2>0. PICK at : SpeltAt(at)
    BY <1>6 DEF Spelt
  <2>1. /\ line # <<>> /\ line[n].type = yychar
        /\ yychar \in Texted => yylval.text = line[n].text
        /\ Harmless(out) /\ yyerrstatus <= began /\ ~IllFormed(line)
        /\ Ended(line) <=> yychar = 15
    BY <1>1, <1>6, TypedFacts DEF Spelt, WellFormed, Last
  <2>2. line \in Seq(Tokens) /\ n \in Nat /\ n - 1 \in Nat
    BY <2>1 DEF FullInv, HistoryIn
  <2>3. Consumed = n - 1 /\ Consumed' = n
    BY <1>1, <1>2, TypedFacts DEF Consumed
  <2>4. k \in Nat /\ k >= 2 /\ at[k] = n - 1
    BY <2>0, <2>3, TopIs DEF SpeltAt, SpeltIn, FullInv, TypeInv
  <2>5. Place(line, Top, n - 1)
    BY <2>0, <2>3, TopPlace DEF FullInv, TypeInv
  <2>6. line' = line
    BY <1>2
  <2> HIDE DEF n, k
  <2>7. (n - 1) + 1 = n
    BY <2>2
  <2>8. Place(line, g, n)
    <3>1. Place(line, g, (n - 1) + 1)
      BY <1>1, <2>1, <2>2, <2>5, <2>7, MovePlace
    <3> QED BY <2>7, <3>1
  <2>9. Spells(line, YYSTOS[g + 1], yylval, at[k], n)
    <3>1. yychar \in {16, 17, 18} => yylval.text = line[n].text
      BY <2>1, TypedFacts
    <3> QED BY <1>1, <2>1, <2>4, <2>7, <3>1, SMTT(40) DEF Spells
  <2>10. \E b : SpeltAt(b)'
    BY <1>1, <2>0, <2>2, <2>3, <2>4, <2>6, <2>8, <2>9, Extend DEF k
  <2>11. WellFormed'
    <3>1. Top # 3
      <4>1. ASSUME NEW m, Reached(3, m) PROVE FALSE
        BY <4>1 DEF Reached
      <4> QED BY <2>5, <4>1 DEF Place
    <3>2. g \in {7, 25, 27, 33, 41} <=> yychar = 15
      <4>1. yychar = 15 => g \in {7, 25, 27, 33, 41}
        BY <1>1, <3>1 DEF Moves
      <4>2. g \in {7, 25, 27, 33, 41} => yychar = 15
        BY <1>1 DEF Moves
      <4> QED BY <4>1, <4>2
    <3>3. yyerrstatus' <= began
      <4>1. yyerrstatus \in 0 .. 3 /\ began \in 0 .. 3
        BY DEF FullInv, TypeInv, StatusInv, HistoryIn
      <4> QED BY <1>1, <2>1, <4>1
    <3>4. yychar' = YYEMPTY /\ YYEMPTY # 15 /\ Top' = g
      BY <1>1, TypedFacts
    <3> QED BY <1>2, <2>1, <3>2, <3>3, <3>4 DEF WellFormed
  <2> QED BY <1>3, <2>10, <2>11 DEF FullInv, LineInv, Spelt
<1> QED BY <1>4, <1>5, <1>6

LEMMA ReportIn ==
  ASSUME HistoryIn, Report
  PROVE  out' \in Seq(Events)
<1> DEFINE e == [op |-> "syntax error"]
<1>1. out \in Seq(Events) /\ e \in Events
  BY DEF HistoryIn, Events
<1>2. out' = out \/ out' = Append(out, e)
  BY DEF Report
<1> HIDE DEF e
<1> QED BY <1>1, <1>2

LEMMA ReportedOnce ==
  ASSUME HistoryIn, Report, Harmless(out), yyerrstatus \in 0 .. 3, yyerrstatus <= began,
         began' = began
  PROVE  Reported'
<1>1. out \in Seq(Events) /\ began \in 0 .. 3
  BY DEF HistoryIn
<1>2. CASE yyerrstatus = 0
  <2> DEFINE e == [op |-> "syntax error"]
             n == Len(out)
  <2>1. out' = Append(out, e) /\ e \in Events /\ e.op = "syntax error"
    BY <1>2 DEF Report, Events
  <2> HIDE DEF e
  <2>2. n \in Nat /\ out' \in Seq(Events) /\ Len(out') = n + 1 /\ out'[n + 1] = e
        /\ \A i \in 1 .. n : out'[i] = out[i]
    <3> DEFINE a == Append(out, e)
    <3>1. n \in Nat /\ a \in Seq(Events) /\ Len(a) = n + 1 /\ a[n + 1] = e
          /\ \A i \in 1 .. n : a[i] = out[i]
      <4>1. out \in Seq(Events) /\ e \in Events
        BY <1>1, <2>1
      <4> QED BY <4>1
    <3> HIDE DEF a
    <3>2. out' = a
      BY <2>1 DEF a
    <3> QED BY <3>1, <3>2
  <2>3. \A i \in 1 .. n : out'[i].op = "wrong attribute name"
    <3>1. DOMAIN out = 1 .. n
      BY <1>1
    <3> QED BY <2>2, <3>1 DEF Harmless
  <2>4. DOMAIN out' = 1 .. n + 1
    BY <2>2
  <2> HIDE DEF n
  <2>6. \A i \in 1 .. n + 1 : i \in 1 .. n \/ i = n + 1
    BY <2>2
  <2>7. n + 1 \in 1 .. n + 1 /\ n + 1 \notin 1 .. n
    BY <2>2
  <2>8. Calls(out') = {}
    BY <2>1, <2>2, <2>3, <2>4, <2>6 DEF Calls
  <2>9. Errors(out') = {n + 1}
    BY <2>1, <2>2, <2>3, <2>4, <2>6, <2>7 DEF Errors
  <2>5. Cardinality({n + 1}) = 1
    BY FS_Singleton
  <2> QED BY <2>5, <2>8, <2>9 DEF Reported
<1>3. CASE yyerrstatus # 0
  <2>1. out' = out /\ began # 0
    BY <1>1, <1>3 DEF Report
  <2>2. Calls(out) = {} /\ Errors(out) = {}
    BY HarmlessIs
  <2>3. Cardinality({}) = 0
    BY FS_EmptySet
  <2> QED BY <2>1, <2>2, <2>3 DEF Reported
<1> QED BY <1>2, <1>3

LEMMA NotThree ==
  ASSUME StackInv, NEW at, SpeltAt(at)
  PROVE  Top # 3
<1>1. Place(line, Top, Consumed)
  BY TopPlace
<1>2. ASSUME NEW m, Reached(3, m) PROVE FALSE
  BY <1>2 DEF Reached
<1> QED BY <1>1, <1>2 DEF Place

LEMMA ErrorLine ==
  ASSUME FullInv, Recover \/ Discard
  PROVE  FullInv'
<1>1. /\ ErrorNow /\ Catchers # {} /\ Caught(Max(Catchers))
      /\ UNCHANGED <<line, began, result>>
  BY DEF Recover, Discard, history
<1>2. Running /\ Top \in Reading /\ yychar # YYEMPTY /\ ~Shifts(Top, yychar)
  BY <1>1, ErrorIs DEF FullInv
<1>3. TypeInv' /\ Top' = 3
  BY <1>1, CaughtIs, ErrorKeeps DEF FullInv
<1>4. HistoryIn'
  <2>1. out' \in Seq(Events)
    BY ReportIn DEF FullInv, Recover, Discard, history, HistoryIn
  <2> QED BY <1>1, <2>1 DEF FullInv, HistoryIn
<1>5. (yyerrstatus = 3 <=> Top = 3) /\ yyerrstatus \in 0 .. 3
  BY DEF FullInv, TypeInv, StatusInv
<1>6. \/ Spelt /\ Top # 3
      \/ Misfit /\ Top # 3
      \/ Skipping /\ Top = 3
      \/ Cut
  <2>1. Fresh \/ Spelt \/ Answered \/ Misfit \/ Skipping \/ Cut
    BY <1>2 DEF FullInv, LineInv
  <2>2. Spelt => Top # 3
    BY NotThree DEF Spelt, FullInv, TypeInv
  <2> QED BY <1>2, <2>1, <2>2 DEF Fresh, Answered, Misfit, Skipping, Cut
<1>7. CASE Recover
  <2>1. yyerrstatus # 3 /\ Report /\ yychar' = yychar
    BY <1>7 DEF Recover
  <2>2. CASE Spelt /\ Top # 3
    <3>1. yychar = 0
      BY <1>2, <2>2 DEF Spelt, WellFormed
    <3> QED BY <1>3, <1>4, <2>1, <3>1 DEF FullInv, LineInv, Cut
  <2>3. CASE Misfit /\ Top # 3
    <3>1. Reported'
      BY <1>1, <1>5, <2>1, <2>3, ReportedOnce DEF FullInv, Misfit
    <3>2. Ill' /\ yychar' # 0 /\ (Ended(line') <=> yychar' = 15)
      BY <1>1, <2>1, <2>3 DEF Misfit, Ill
    <3> QED BY <1>3, <1>4, <3>1, <3>2 DEF FullInv, LineInv, Skipping
  <2> QED BY <1>5, <1>6, <2>1, <2>2, <2>3 DEF Cut
<1>8. CASE Discard
  <2>1. yyerrstatus = 3 /\ yychar # 0 /\ yychar' = YYEMPTY /\ out' = out
    BY <1>8 DEF Discard, history, T
  <2>2. Skipping /\ Top = 3
    BY <1>5, <1>6, <2>1 DEF Cut
  <2>3. Shifts(3, 15)
    <3>1. Moves(3, 15, 12) /\ 3 \in Reading /\ 15 \in 0 .. 24
      BY DEF Moves, Reading
    <3> QED BY <3>1, ShiftIs
  <2>4. ~Ended(line)
    BY <1>2, <2>2, <2>3 DEF Skipping
  <2>5. Ill' /\ Reported' /\ ~Ended(line')
    BY <1>1, <2>1, <2>2, <2>4 DEF Skipping, Ill, Reported
  <2>6. yychar' # 0 /\ yychar' # 15
    BY <2>1, TypedFacts
  <2> QED BY <1>3, <1>4, <2>5, <2>6 DEF FullInv, LineInv, Skipping
<1> QED BY <1>7, <1>8

LEMMA StopLine ==
  ASSUME FullInv, Accept \/ Abort
  PROVE  FullInv'
<1>1. TypeInv'
  BY StopKeeps DEF FullInv
<1>2. UNCHANGED <<line, began>> /\ ~Running'
  BY DEF Accept, Abort, history, Running
<1>3. out' \in Seq(Events)
  BY ReportIn DEF FullInv, HistoryIn, Accept, Abort, history
<1> QED BY <1>1, <1>2, <1>3 DEF FullInv, HistoryIn, LineInv

\* Where the symbol j places below the top ends in the line.
Pos(at, j) == at[Len(stack) - j]

LEMMA Symbol ==
  ASSUME StackInv, NEW at, SpeltAt(at), NEW j \in Nat, j < Len(stack), S(j) \notin {0, 1}
  PROVE  /\ Pos(at, j) \in Nat /\ Pos(at, j + 1) \in Nat
         /\ Spells(line, YYSTOS[S(j) + 1], V(j), Pos(at, j + 1), Pos(at, j))
         /\ Place(line, S(j), Pos(at, j))
BY SpeltBelow DEF Pos

LEMMA PosTop ==
  ASSUME StackInv, NEW at, SpeltAt(at)
  PROVE  Pos(at, 0) = Consumed
<1>1. Len(stack) \in Nat
  BY TopIs
<1>2. Len(stack) - 0 = Len(stack)
  BY <1>1
<1> QED BY <1>2 DEF Pos, SpeltAt, SpeltIn

LEMMA SpellsOperator ==
  ASSUME NEW l, NEW x \in 19 .. 24, NEW v, NEW f, NEW t, Spells(l, x, v, f, t)
  PROVE  t = f + 1 /\ l[t].type = x
<1>1. x \notin 31 .. 37 /\ x \notin {16, 17, 18}
  OBVIOUS
<1> QED BY <1>1 DEF Spells

LEMMA SpellsIs ==
  ASSUME NEW l, NEW x, NEW v, NEW f, NEW t, Spells(l, x, v, f, t)
  PROVE  /\ x \in (3 .. 24) \cup (33 .. 37) => t = f + 1
         /\ x \in (3 .. 15) => l[t].type = x
         /\ x \in {16, 17, 18} => l[t].type = x /\ v.text = l[t].text
         /\ x = 31 => /\ Len(v.conds) \in Nat /\ t = f + 4 * Len(v.conds) - 1
                      /\ \A i \in 1 .. Len(v.conds) : IsCond(l, v.conds[i], f + 4 * (i - 1))
         /\ x = 32 => t = f + 3 /\ IsCond(l, v, f)
         /\ x = 33 => v.integer = AttrNumber(l[t])
         /\ x = 34 => l[t].type = 18 /\ v.integer = AttrNumber(l[t])
         /\ x = 35 => l[t].type \in {16, 17} /\ v.text = l[t].text
         /\ x = 36 => l[t].type = 18 /\ v.text = l[t].text
         /\ x = 37 => l[t].type \in 19 .. 24 /\ v.integer = CompOf[l[t].type]
<1>1. CASE x \in 3 .. 24
  <2>1. /\ x \in {16, 17, 18} => t = f + 1 /\ l[t].type = x /\ v.text = l[t].text
        /\ x \notin {16, 17, 18} => t = f + 1 /\ l[t].type = x
    <3>1. CASE x \in {16, 17, 18}
      BY <3>1 DEF Spells
    <3>2. CASE x \in 3 .. 15
      BY <3>2 DEF Spells
    <3>3. CASE x \in 19 .. 24
      BY <3>3 DEF Spells
    <3> QED BY <1>1, <3>1, <3>2, <3>3
  <2>2. t = f + 1 /\ x \notin 31 .. 37
    BY <1>1, <2>1
  <2>3. x \in 3 .. 15 => l[t].type = x
    BY <2>1
  <2> QED BY <2>1, <2>2, <2>3
<1>2. CASE x = 31
  BY <1>2 DEF Spells
<1>3. CASE x = 32
  BY <1>3 DEF Spells
<1>4. CASE x \in 33 .. 37
  BY <1>4 DEF Spells
<1> QED BY <1>1, <1>2, <1>3, <1>4

\* A symbol leads the automaton on in the line as its tokens do.
LEMMA GotoPlace ==
  ASSUME NEW l, NEW p, NEW y \in 31 .. 37, NEW g, Goes(p, y, g), NEW f \in Nat, NEW e \in Nat,
         Place(l, p, f), y \in 33 .. 37 => e = f + 1, y = 32 => e = f + 3,
         y = 31 => e % 4 = 0 /\ e >= 8
  PROVE  Place(l, g, e)
<1>1. Reached(p, f) /\ (p \in InSelect => l[1].type = 3) /\ (p \in InLoad => l[1].type = 6)
  BY DEF Place
<1>2. p \in {4, 5, 20, 24, 30, 32, 40} /\ (g \in InSelect => p \in InSelect)
      /\ (g \in InLoad => p \in InLoad)
  BY DEF Goes, InSelect, InLoad
<1>3. Reached(g, e)
  <2>1. CASE y = 31
    BY <2>1 DEF Goes, Reached
  <2>2. CASE y = 32
    <3>1. CASE p = 24
      BY <1>1, <2>2, <3>1 DEF Goes, Reached
    <3>2. CASE p = 32
      <4>1. f % 4 = 1 /\ f >= 9 /\ g = 42
        BY <1>1, <2>2, <3>2 DEF Goes, Reached
      <4>2. e % 4 = 0 /\ e >= 8
        BY <2>2, <4>1
      <4> QED BY <4>1, <4>2 DEF Reached
    <3> QED BY <2>2, <3>1, <3>2 DEF Goes
  <2>3. CASE p \in {4, 5, 20} /\ y \in 33 .. 37
    BY <1>1, <2>3 DEF Goes, Reached
  <2>4. CASE p \in {24, 32} /\ y \in 33 .. 37
    <3>1. g = 30 /\ (p = 24 => f = 5) /\ (p = 32 => f % 4 = 1 /\ f >= 9)
      BY <1>1, <2>4 DEF Goes, Reached
    <3>2. e % 4 = 2 /\ e >= 6
      BY <2>4, <3>1
    <3> QED BY <3>1, <3>2 DEF Reached
  <2>5. CASE p = 30 /\ y \in 33 .. 37
    <3>1. g = 40 /\ f % 4 = 2 /\ f >= 6
      BY <1>1, <2>5 DEF Goes, Reached
    <3>2. e % 4 = 3 /\ e >= 7
      BY <2>5, <3>1
    <3> QED BY <3>1, <3>2 DEF Reached
  <2>6. CASE p = 40 /\ y \in 33 .. 37
    <3>1. g = 45 /\ f % 4 = 3 /\ f >= 7
      BY <1>1, <2>6 DEF Goes, Reached
    <3>2. e % 4 = 0 /\ e >= 8
      BY <2>6, <3>1
    <3> QED BY <3>1, <3>2 DEF Reached
  <2> QED BY <1>2, <2>1, <2>2, <2>3, <2>4, <2>5, <2>6
<1> QED BY <1>1, <1>2, <1>3 DEF Place

\* The value that a rule makes of what its symbols stand for stands for the
\* tokens of all of them.
LEMMA RuleSpells ==
  ASSUME StackInv, NEW at, SpeltAt(at), NEW n \in 14 .. 29, NEW size, NEW y, NEW g,
         Rule(n, size, y, g)
  PROVE  /\ size \in 1 .. 3 /\ S(size) \notin {0, 1} /\ size < Len(stack)
         /\ Pos(at, 0) \in Nat
         /\ Spells(line, y, RuleValue(n), Pos(at, size), Pos(at, 0))
         /\ Place(line, g, Pos(at, 0))
<1>0. Top = S(0) /\ n # 9
  BY TopIs
<1>1. /\ Reduces(Top, n, size, y) /\ size \in 0 .. 7 /\ Handle(n)
      /\ size < Len(stack) /\ Goes(S(size), y, g)
      /\ \A k \in 1 .. size : Dollar(n, k) = V(size - k)
      /\ n = YYDEFACT[Top + 1]
      /\ \A j \in 0 .. size : Meets(YYSTOS[S(j) + 1], V(j))
  BY <1>0 DEF Rule
<1>11. /\ n = 14 => S(0) = 29 /\ size = 1 /\ y = 31
       /\ n = 15 => S(0) = 42 /\ size = 3 /\ y = 31
       /\ n = 16 => S(0) = 45 /\ size = 3 /\ y = 32
       /\ n = 17 => S(0) = 17 /\ size = 1 /\ y = 33
       /\ n = 18 => S(0) = 14 /\ size = 1 /\ y = 33
       /\ n = 19 => S(0) = 13 /\ size = 1 /\ y = 33
       /\ n = 20 => S(0) = 15 /\ size = 1 /\ y = 34
       /\ n = 21 => S(0) = 43 /\ size = 1 /\ y = 35
       /\ n = 22 => S(0) = 44 /\ size = 1 /\ y = 35
       /\ n = 23 => S(0) = 18 /\ size = 1 /\ y = 36
       /\ n \in 24 .. 29 => S(0) \in 34 .. 39 /\ size = 1 /\ y = 37
  <2>1. Reduces(S(0), n, size, y)
    BY <1>0, <1>1
  <2> QED BY <2>1, ReducesIs
<1>2. /\ size \in 1 .. 3 /\ y \in 31 .. 37 /\ S(0) \notin {0, 1}
      /\ y \in 33 .. 37 => size = 1
      /\ y = 32 => n = 16
      /\ y = 31 => n \in {14, 15}
  <2>1. n \in {14, 15, 16, 17, 18, 19, 20, 21, 22, 23} \/ n \in 24 .. 29
    OBVIOUS
  <2> QED BY <1>11, <2>1
<1>3. S(size) \in {4, 5, 20, 24, 30, 32, 40}
  <2>1. \A p : Goes(p, y, g) => p \in {4, 5, 20, 24, 30, 32, 40}
    BY <1>2 DEF Goes
  <2> QED BY <1>1, <2>1
<1>4. Pos(at, size) \in Nat /\ Place(line, S(size), Pos(at, size))
  <2>1. size \in Nat /\ S(size) \notin {0, 1}
    BY <1>1, <1>3
  <2> QED BY <1>1, <2>1, Symbol
<1> DEFINE e == Pos(at, 0)
           f == Pos(at, 1)
<1>5. /\ e \in Nat /\ f \in Nat
      /\ Spells(line, YYSTOS[S(0) + 1], V(0), f, e) /\ Place(line, S(0), e)
  <2>1. 0 \in Nat /\ 0 < Len(stack) /\ 0 + 1 = 1
    BY TopIs
  <2> QED BY <1>2, <2>1, Symbol
<1> HIDE DEF e, f
<1>6. CASE n \notin {14, 15, 16}
  <2>1. size = 1 /\ y \in 33 .. 37
    <3>1. n \in {17, 18, 19, 20, 21, 22, 23} \/ n \in 24 .. 29
      BY <1>6
    <3> QED BY <1>11, <3>1
  <2>2. Dollar(n, 1) = V(0) /\ Pos(at, size) = f
    BY <1>1, <2>1 DEF f
  <2>3. Spells(line, y, RuleValue(n), f, e)
    <3>1. CASE n = 17
      <4>1. S(0) = 17 /\ y = 33 /\ RuleValue(n) = V(0)
        BY <1>11, <2>2, <3>1 DEF RuleValue, YYR2
      <4>2. YYSTOS[S(0) + 1] = 34
        BY <4>1 DEF YYSTOS
      <4>3. e = f + 1 /\ line[e].type = 18 /\ V(0).integer = AttrNumber(line[e])
        BY <1>5, <4>2, SpellsIs
      <4> QED BY <4>1, <4>3 DEF Spells
    <3>2. CASE n \in {18, 19}
      <4>1. /\ n = 18 => S(0) = 14 /\ RuleValue(n) = IntVal(3)
            /\ n = 19 => S(0) = 13 /\ RuleValue(n) = IntVal(4)
            /\ y = 33
        <5>1. n = 18 => RuleValue(n) = IntVal(3)
          BY DEF RuleValue, AttrValue, YYR2
        <5>2. n = 19 => RuleValue(n) = IntVal(4)
          BY DEF RuleValue, AttrValue, YYR2
        <5> QED BY <1>11, <3>2, <5>1, <5>2
      <4>2. YYSTOS[14 + 1] = 14 /\ YYSTOS[13 + 1] = 10
        BY DEF YYSTOS
      <4>3. e = f + 1 /\ (n = 18 => line[e].type = 14) /\ (n = 19 => line[e].type = 10)
        BY <1>5, <3>2, <4>1, <4>2, SpellsIs
      <4>4. /\ n = 18 => AttrNumber(line[e]) = 3
            /\ n = 19 => AttrNumber(line[e]) = 4
        BY <4>3 DEF AttrNumber, T
      <4>5. RuleValue(n).integer = AttrNumber(line[e])
        BY <3>2, <4>1, <4>4 DEF IntVal
      <4> QED BY <3>2, <4>1, <4>3, <4>5 DEF Spells
    <3>3. CASE n = 20
      <4>1. /\ S(0) = 15 /\ y = 34
            /\ RuleValue(n) = IntVal(IF V(0).text = "key" THEN 1
                                ELSE IF V(0).text = "value" THEN 2 ELSE Junk)
        BY <1>11, <2>2, <3>3 DEF RuleValue, AttrValue, YYR2
      <4>2. YYSTOS[S(0) + 1] = 18
        BY <4>1 DEF YYSTOS
      <4>3. e = f + 1 /\ line[e].type = 18 /\ V(0).text = line[e].text
        BY <1>5, <4>2, SpellsIs
      <4>4. AttrNumber(line[e]) = IF V(0).text = "key" THEN 1
                                  ELSE IF V(0).text = "value" THEN 2 ELSE Junk
        BY <4>3 DEF AttrNumber, T
      <4>5. RuleValue(n).integer = AttrNumber(line[e])
        BY <4>1, <4>4 DEF IntVal
      <4> QED BY <4>1, <4>3, <4>5 DEF Spells
    <3>4. CASE n \in {21, 22}
      <4>1. S(0) \in {43, 44} /\ y = 35 /\ RuleValue(n) = V(0)
        <5>1. n = 21 => RuleValue(n) = Dollar(n, 1)
          BY DEF RuleValue, YYR2
        <5>2. n = 22 => RuleValue(n) = Dollar(n, 1)
          BY DEF RuleValue, YYR2
        <5> QED BY <1>11, <2>2, <3>4, <5>1, <5>2
      <4>2. YYSTOS[S(0) + 1] \in {16, 17}
        BY <4>1 DEF YYSTOS
      <4>3. e = f + 1 /\ line[e].type \in {16, 17} /\ V(0).text = line[e].text
        BY <1>5, <4>2, SpellsIs
      <4> QED BY <4>1, <4>3 DEF Spells
    <3>5. CASE n = 23
      <4>1. S(0) = 18 /\ y = 36 /\ RuleValue(n) = V(0)
        BY <1>11, <2>2, <3>5 DEF RuleValue, YYR2
      <4>2. YYSTOS[S(0) + 1] = 18
        BY <4>1 DEF YYSTOS
      <4>3. e = f + 1 /\ line[e].type = 18 /\ V(0).text = line[e].text
        BY <1>5, <4>2, SpellsIs
      <4> QED BY <4>1, <4>3 DEF Spells
    <3>6. CASE n \in 24 .. 29
      <4>1. S(0) \in 34 .. 39 /\ y = 37
        BY <1>11, <3>6
      <4>2. RuleValue(n) = IntVal(n - 24)
        BY <3>6 DEF RuleValue, YYR2
      <4>3. \A s \in 34 .. 39 :
              YYSTOS[s + 1] \in 19 .. 24 /\ CompOf[YYSTOS[s + 1]] = YYDEFACT[s + 1] - 24
        <5>1. /\ CompOf[19] = 0 /\ CompOf[20] = 1 /\ CompOf[21] = 2
              /\ CompOf[22] = 4 /\ CompOf[23] = 3 /\ CompOf[24] = 5
          BY DEF CompOf, Comp, T
        <5> QED BY <5>1 DEF YYSTOS, YYDEFACT
      <4>4. e = f + 1 /\ line[e].type = YYSTOS[S(0) + 1]
        <5>1. YYSTOS[S(0) + 1] \in 19 .. 24
          BY <4>1, <4>3
        <5> QED BY <1>5, <5>1, SpellsOperator
      <4>5. RuleValue(n).integer = CompOf[line[e].type] /\ line[e].type \in 19 .. 24
        <5>1. n = YYDEFACT[S(0) + 1]
          BY <1>0, <1>1
        <5>2. RuleValue(n).integer = n - 24
          BY <4>2 DEF IntVal
        <5> QED BY <4>1, <4>3, <4>4, <5>1, <5>2
      <4> QED BY <4>1, <4>4, <4>5 DEF Spells
    <3> QED BY <1>6, <3>1, <3>2, <3>3, <3>4, <3>5, <3>6
  <2>4. e = f + 1
    BY <2>1, <2>3, SpellsIs
  <2>5. Place(line, g, e)
    <3>1. Place(line, S(size), f)
      BY <1>4, <2>2
    <3>2. y \in 31 .. 37 /\ (y \in 33 .. 37 => e = f + 1) /\ ~(y = 32) /\ ~(y = 31)
      BY <2>1, <2>4
    <3> QED BY <1>1, <1>5, <3>1, <3>2, GotoPlace
  <2> QED BY <1>1, <1>2, <1>3, <1>5, <2>2, <2>3, <2>5 DEF e
<1>7. CASE n = 14
  <2>1. S(0) = 29 /\ y = 31 /\ size = 1
    BY <1>7, <1>11
  <2>2. Dollar(n, 1) = V(0) /\ Pos(at, size) = f /\ YYSTOS[S(0) + 1] = 32
    <3>1. YYSTOS[S(0) + 1] = 32
      BY <2>1 DEF YYSTOS
    <3>2. Pos(at, size) = f
      BY <2>1 DEF f
    <3>3. Dollar(n, 1) = V(0)
      <4>1. \A k \in 1 .. 1 : Dollar(n, k) = V(1 - k)
        BY <1>1, <2>1
      <4>2. 1 \in 1 .. 1 /\ 1 - 1 = 0
        OBVIOUS
      <4> QED BY <4>1, <4>2
    <3> QED BY <3>1, <3>2, <3>3
  <2>3. e = f + 3 /\ IsCond(line, V(0), f)
    BY <1>5, <2>2, SpellsIs
  <2>4. RuleValue(n) = [conds |-> <<V(0)>>]
    BY <1>7, <2>2 DEF RuleValue, CondsValue, YYR2
  <2>5. Spells(line, y, RuleValue(n), f, e)
    <3> DEFINE c == <<V(0)>>
    <3>1. Len(c) = 1 /\ c[1] = V(0)
      OBVIOUS
    <3>2. RuleValue(n).conds = c
      BY <2>4
    <3> HIDE DEF c
    <3>3. e = f + 4 * Len(c) - 1 /\ Len(c) \in Nat
      BY <1>5, <2>3, <3>1
    <3>4. ASSUME NEW i \in 1 .. Len(c) PROVE IsCond(line, c[i], f + 4 * (i - 1))
      <4>1. i = 1 /\ f + 4 * (i - 1) = f
        BY <1>5, <3>1
      <4> QED BY <2>3, <3>1, <4>1
    <3> QED BY <2>1, <3>2, <3>3, <3>4 DEF Spells
  <2>6. e % 4 = 0 /\ e >= 8
    BY <1>5, <2>1 DEF Place, Reached
  <2>7. Place(line, g, e)
    <3>1. y \in 31 .. 37 /\ (y = 31 => e % 4 = 0 /\ e >= 8) /\ ~(y = 32) /\ y \notin 33 .. 37
      BY <2>1, <2>6
    <3> QED BY <1>1, <1>4, <1>5, <3>1, GotoPlace
  <2> QED BY <1>1, <1>2, <1>3, <1>5, <2>2, <2>5, <2>7 DEF e
<1>8. ASSUME n \in {15, 16}
      PROVE  /\ size = 3 /\ S(1) \notin {0, 1} /\ S(2) \notin {0, 1}
             /\ Spells(line, YYSTOS[S(1) + 1], V(1), Pos(at, 2), f)
             /\ Spells(line, YYSTOS[S(2) + 1], V(2), Pos(at, 3), Pos(at, 2))
             /\ Pos(at, 3) \in Nat /\ Pos(at, 2) \in Nat
             /\ Dollar(n, 1) = V(2) /\ Dollar(n, 2) = V(1) /\ Dollar(n, 3) = V(0)
  <2>1. size = 3 /\ S(1) \notin {0, 1} /\ S(2) \notin {0, 1}
    <3>1. size = 3
      BY <1>8, <1>11
    <3>2. CASE n = 15
      BY <1>1, <3>1, <3>2 DEF Handle
    <3>3. CASE n = 16
      BY <1>1, <3>1, <3>3 DEF Handle
    <3> QED BY <1>8, <3>2, <3>3
  <2>2. 1 \in Nat /\ 2 \in Nat /\ 1 < Len(stack) /\ 2 < Len(stack)
    BY <1>1, <2>1, TopIs
  <2>3. /\ Spells(line, YYSTOS[S(1) + 1], V(1), Pos(at, 1 + 1), Pos(at, 1))
        /\ Spells(line, YYSTOS[S(2) + 1], V(2), Pos(at, 2 + 1), Pos(at, 2))
        /\ Pos(at, 2) \in Nat
    BY <2>1, <2>2, Symbol
  <2> QED BY <1>1, <1>4, <2>1, <2>3 DEF f
<1>9. CASE n = 15
  <2> DEFINE a == Pos(at, 3)
             b == Pos(at, 2)
             old == V(2).conds
             c == Append(old, V(0))
  <2>1. S(0) = 42 /\ S(1) = 32 /\ S(2) = 28 /\ y = 31
    BY <1>1, <1>9, <1>11 DEF Handle
  <2>2. YYSTOS[S(0) + 1] = 32 /\ YYSTOS[S(1) + 1] = 11 /\ YYSTOS[S(2) + 1] = 31
    BY <2>1 DEF YYSTOS
  <2>3. /\ Len(old) \in Nat /\ b = a + 4 * Len(old) - 1
        /\ \A i \in 1 .. Len(old) : IsCond(line, old[i], a + 4 * (i - 1))
    BY <1>8, <1>9, <2>2, SpellsIs
  <2>4. f = b + 1
    BY <1>8, <1>9, <2>2, SpellsIs
  <2>5. e = f + 3 /\ IsCond(line, V(0), f)
    BY <1>5, <2>2, SpellsIs
  <2>6. RuleValue(n) = [conds |-> c]
    BY <1>8, <1>9 DEF RuleValue, CondsValue, YYR2
  <2>7. old \in Seq(Conditions) /\ V(0) \in Conditions
    BY <1>1, <1>8, <1>9, <2>2 DEF Meets
  <2> HIDE DEF old
  <2>8. Len(c) = Len(old) + 1 /\ c[Len(old) + 1] = V(0) /\ \A i \in 1 .. Len(old) : c[i] = old[i]
    BY <2>7
  <2> HIDE DEF a, b, c
  <2>9. a \in Nat /\ b \in Nat /\ Pos(at, size) = a
    BY <1>8, <1>9 DEF a, b
  <2>10. Spells(line, y, RuleValue(n), a, e)
    <3> DEFINE L == Len(old)
    <3>1. L \in Nat /\ Len(c) = L + 1 /\ b = a + 4 * L - 1
      BY <2>3, <2>8
    <3>2. ASSUME NEW i \in 1 .. L + 1 PROVE IsCond(line, c[i], a + 4 * (i - 1))
      <4>1. CASE i \in 1 .. L
        BY <2>3, <2>8, <4>1
      <4>2. CASE i = L + 1
        <5>1. c[i] = V(0)
          BY <2>8, <4>2
        <5> HIDE DEF L
        <5>2. a + 4 * (i - 1) = f
          BY <2>4, <2>9, <3>1, <4>2
        <5> QED BY <2>5, <5>1, <5>2
      <4> HIDE DEF L
      <4> QED BY <3>1, <4>1, <4>2
    <3> HIDE DEF L
    <3>3. e = a + 4 * Len(c) - 1 /\ Len(c) \in Nat
      BY <2>4, <2>5, <2>9, <3>1
    <3>4. RuleValue(n).conds = c
      BY <2>6
    <3>5. \A i \in 1 .. Len(c) : IsCond(line, c[i], a + 4 * (i - 1))
      BY <3>1, <3>2
    <3> QED BY <2>1, <3>3, <3>4, <3>5 DEF Spells
  <2>11. e % 4 = 0 /\ e >= 8
    BY <1>5, <2>1 DEF Place, Reached
  <2>12. Place(line, g, e)
    <3>1. y \in 31 .. 37 /\ (y = 31 => e % 4 = 0 /\ e >= 8) /\ ~(y = 32) /\ y \notin 33 .. 37
      BY <2>1, <2>11
    <3> QED BY <1>1, <1>4, <1>5, <3>1, GotoPlace
  <2> QED BY <1>1, <1>2, <1>3, <1>5, <2>9, <2>10, <2>12 DEF e
<1>10. CASE n = 16
  <2> DEFINE a == Pos(at, 3)
             b == Pos(at, 2)
  <2>1. S(0) = 45 /\ S(1) = 40 /\ S(2) = 30 /\ y = 32
    BY <1>1, <1>10, <1>11 DEF Handle
  <2>2. YYSTOS[S(0) + 1] = 35 /\ YYSTOS[S(1) + 1] = 37 /\ YYSTOS[S(2) + 1] = 34
    BY <2>1 DEF YYSTOS
  <2>3. b = a + 1 /\ line[b].type = 18 /\ V(2).integer = AttrNumber(line[b])
    BY <1>8, <1>10, <2>2, SpellsIs
  <2>4. f = b + 1 /\ line[f].type \in 19 .. 24 /\ V(1).integer = CompOf[line[f].type]
    BY <1>8, <1>10, <2>2, SpellsIs
  <2>5. e = f + 1 /\ line[e].type \in {16, 17} /\ V(0).text = line[e].text
    BY <1>5, <2>2, SpellsIs
  <2> HIDE DEF a, b
  <2>6. a \in Nat /\ b = a + 1 /\ f = a + 2 /\ e = a + 3 /\ Pos(at, size) = a
    BY <1>8, <1>10, <2>3, <2>4, <2>5 DEF a
  <2>7. RuleValue(n) = [attr |-> V(2).integer, comp |-> V(1).integer, value |-> V(0)]
    BY <1>8, <1>10 DEF RuleValue, YYR2
  <2>8. /\ RuleValue(n).attr = V(2).integer /\ RuleValue(n).comp = V(1).integer
        /\ RuleValue(n).value = V(0)
    BY <2>7
  <2>9. IsCond(line, RuleValue(n), a)
    BY <2>3, <2>4, <2>5, <2>6, <2>8 DEF IsCond
  <2>10. Spells(line, y, RuleValue(n), a, e)
    BY <2>1, <2>6, <2>9 DEF Spells
  <2>11. Place(line, g, e)
    <3>1. Place(line, S(size), a)
      BY <1>4, <2>6
    <3>2. y \in 31 .. 37 /\ (y = 32 => e = a + 3) /\ ~(y = 31) /\ y \notin 33 .. 37
      BY <2>1, <2>6
    <3>3. a \in Nat /\ e \in Nat /\ Goes(S(size), y, g)
      BY <1>1, <1>5, <2>6
    <3> QED BY <3>1, <3>2, <3>3, GotoPlace
  <2> QED BY <1>1, <1>2, <1>3, <1>5, <2>6, <2>10, <2>11 DEF e
<1> QED BY <1>6, <1>7, <1>9, <1>10

\* What a line asks for, by its first token.
LEMMA MeaningIs ==
  ASSUME NEW l
  PROVE  /\ l[1].type = 6 =>
              Meaning(l) = <<[op |-> "load", table |-> l[2].text, file |-> l[4].text,
                              index |-> Len(l) = 7]>>
         /\ l[1].type = 3 =>
              Meaning(l) = <<[op |-> "select", attr |-> AttrNumber(l[2]), table |-> l[4].text,
                   conds |-> [i \in 1 .. (Len(l) - 5) \div 4 |->
                                [attr |-> AttrNumber(l[4 * i + 2]),
                                 comp |-> CompOf[l[4 * i + 3].type],
                                 value |-> l[4 * i + 4].text]]]>>
         /\ l[1].type \notin {3, 6} => Meaning(l) = <<>>
<1>1. T.LOAD = 6 /\ T.SELECT = 3
  BY DEF T
<1>2. 6 # 3
  OBVIOUS
<1>3. CASE l[1].type = 6
  <2>1. l[1].type = T.LOAD /\ l[1].type # T.SELECT /\ l[1].type \in {3, 6} /\ l[1].type # 3
    BY <1>1, <1>2, <1>3
  <2> QED BY <2>1, Zenon DEF Meaning
<1>4. CASE l[1].type = 3
  <2>1. l[1].type # T.LOAD /\ l[1].type = T.SELECT /\ l[1].type \in {3, 6} /\ l[1].type # 6
    BY <1>1, <1>2, <1>4
  <2> QED BY <2>1, Zenon DEF Meaning
<1>5. CASE l[1].type \notin {3, 6}
  <2>1. l[1].type # T.LOAD /\ l[1].type # T.SELECT /\ l[1].type # 3 /\ l[1].type # 6
    BY <1>1, <1>5
  <2> QED BY <2>1, Zenon DEF Meaning
<1> QED BY <1>3, <1>4, <1>5

LEMMA LoadOutput ==
  /\ RuleOutput(10) = <<LoadCall(Dollar(10, 2), Dollar(10, 4), FALSE)>>
  /\ RuleOutput(11) = <<LoadCall(Dollar(11, 2), Dollar(11, 4), TRUE)>>
<1>1. /\ 10 # 11 /\ 10 # 12 /\ 10 # 13 /\ 10 # 20 /\ 11 # 10 /\ 11 # 12 /\ 11 # 13
      /\ 11 # 20
  OBVIOUS
<1> QED BY <1>1, Zenon DEF RuleOutput

\* A place as the next symbol's start.
LEMMA NextSymbol ==
  ASSUME StackInv, NEW at, SpeltAt(at), NEW j \in Nat, j < Len(stack), S(j) \notin {0, 1},
         NEW f \in Nat, Pos(at, j + 1) = f, YYSTOS[S(j) + 1] \in (3 .. 24) \cup (33 .. 37)
  PROVE  Pos(at, j) = f + 1 /\ Spells(line, YYSTOS[S(j) + 1], V(j), f, f + 1)
<1> DEFINE x == YYSTOS[S(j) + 1]
           v == V(j)
           t == Pos(at, j)
<1>1. Spells(line, x, v, f, t) /\ x \in (3 .. 24) \cup (33 .. 37)
  BY Symbol
<1> HIDE DEF x, v, t
<1>2. t = f + 1
  BY <1>1, SpellsIs
<1> QED BY <1>1, <1>2 DEF x, v, t

LEMMA PlaceOf ==
  ASSUME StackInv, NEW at, SpeltAt(at), NEW j \in Nat, j < Len(stack),
         NEW s, S(j) = s, s \notin {0, 1}
  PROVE  Place(line, s, Pos(at, j))
BY Symbol

\* The output of a rule that is a command is the call that the line asks for.
LEMMA RuleCalls ==
  ASSUME StackInv, HistoryIn, yychar = YYEMPTY, NEW at, SpeltAt(at),
         NEW n \in 10 .. 13, NEW size, NEW y, NEW g, Rule(n, size, y, g)
  PROVE  \E c \in CallEvents : RuleOutput(n) = <<c>> /\ Meaning(line) = <<c>>
<1>1. Consumed = Len(line) /\ Pos(at, 0) = Len(line)
  BY PosTop DEF Consumed
<1>2. /\ n \in {10, 12} => size = 5 /\ 4 < Len(stack)
      /\ n \in {11, 13} => size = 7 /\ 6 < Len(stack)
  <2>1. (n \in {10, 12} => size = 5) /\ (n \in {11, 13} => size = 7)
    BY CommandIs
  <2>2. size < Len(stack)
    BY DEF Rule
  <2> QED BY <2>1, <2>2, TopIs
<1>3. \A j \in 0 .. size : Meets(YYSTOS[S(j) + 1], V(j))
  BY DEF Rule
<1>4. \A v \in Strings : v.text \in Words
  BY DEF Strings, Words
<1>5. CASE n = 12
  <2>1. /\ Dollar(n, 2) = V(3) /\ Dollar(n, 4) = V(1) /\ size = 5
        /\ S(0) = 25 /\ S(1) = 22 /\ S(2) = 20 /\ S(3) = 16 /\ S(4) = 4
    BY <1>5, CommandIs
  <2>2. /\ YYSTOS[S(0) + 1] = 15 /\ YYSTOS[S(1) + 1] = 36 /\ YYSTOS[S(2) + 1] = 4
        /\ YYSTOS[S(3) + 1] = 33
    BY <2>1 DEF YYSTOS
  <2>3. ASSUME NEW j \in 0 .. 3, NEW f \in Nat, Pos(at, j + 1) = f
        PROVE  Pos(at, j) = f + 1 /\ Spells(line, YYSTOS[S(j) + 1], V(j), f, f + 1)
    <3>1. j \in Nat /\ j < Len(stack)
      BY <1>2, <1>5, TopIs
    <3>2. S(j) \notin {0, 1} /\ YYSTOS[S(j) + 1] \in (3 .. 24) \cup (33 .. 37)
      BY <2>1, <2>2
    <3> QED BY <2>3, <3>1, <3>2, NextSymbol
  <2>4. Pos(at, 4) = 1 /\ line[1].type = 3
    <3>1. Place(line, 4, Pos(at, 4))
      <4>1. 4 \in Nat /\ 4 < Len(stack)
        BY <1>2, <1>5
      <4>2. S(4) = 4
        BY <2>1
      <4> QED BY <4>1, <4>2, PlaceOf
    <3> QED BY <3>1 DEF Place, Reached, InSelect
  <2>5. Pos(at, 3) = 2 /\ Spells(line, 33, V(3), 1, 2)
    <3>1. Pos(at, 3 + 1) = 1
      BY <2>4
    <3>2. Pos(at, 3) = 1 + 1 /\ Spells(line, YYSTOS[S(3) + 1], V(3), 1, 1 + 1)
      BY <2>3, <3>1
    <3> QED BY <2>2, <3>2
  <2>6. Pos(at, 2) = 3
    <3>1. Pos(at, 2 + 1) = 2
      BY <2>5
    <3>2. Pos(at, 2) = 2 + 1
      BY <2>3, <3>1
    <3> QED BY <3>2
  <2>7. Pos(at, 1) = 4 /\ Spells(line, 36, V(1), 3, 4)
    <3>1. Pos(at, 1 + 1) = 3
      BY <2>6
    <3>2. Pos(at, 1) = 3 + 1 /\ Spells(line, YYSTOS[S(1) + 1], V(1), 3, 3 + 1)
      BY <2>3, <3>1
    <3> QED BY <2>2, <3>2
  <2>8. Len(line) = 5
    <3>1. Pos(at, 0 + 1) = 4
      BY <2>7
    <3>2. Pos(at, 0) = 4 + 1
      BY <2>3, <3>1
    <3> QED BY <1>1, <3>2
  <2>9. V(3).integer = AttrNumber(line[2]) /\ V(1).text = line[4].text
    BY <2>5, <2>7, SpellsIs
  <2>10. V(3).integer \in Int /\ V(1).text \in Words
    <3>1. Meets(33, V(3)) /\ Meets(36, V(1))
      BY <1>3, <2>1, <2>2
    <3>2. V(3) \in Integer /\ V(1) \in Strings
      BY <3>1 DEF Meets
    <3> QED BY <1>4, <3>2 DEF Integer
  <2> DEFINE e == [i \in 1 .. 0 |-> [attr |-> AttrNumber(line[4 * i + 2]),
                                     comp |-> CompOf[line[4 * i + 3].type],
                                     value |-> line[4 * i + 4].text]]
             c == [op |-> "select", attr |-> AttrNumber(line[2]), table |-> line[4].text,
                   conds |-> e]
  <2>11. e = <<>> /\ [i \in DOMAIN <<>> |-> CondCall(<<>>[i])] = <<>>
    OBVIOUS
  <2>12. Meaning(line) = <<c>>
    <3>1. (Len(line) - 5) \div 4 = 0
      BY <2>8
    <3> QED BY <2>4, <3>1, MeaningIs
  <2> HIDE DEF e
  <2>13. RuleOutput(n) = <<c>>
    <3>1. RuleOutput(n) = <<SelectCall(V(3), V(1), <<>>)>>
      BY <1>5, <2>1 DEF RuleOutput
    <3>2. SelectCall(V(3), V(1), <<>>) = c
      BY <2>9, <2>11 DEF SelectCall
    <3> QED BY <3>1, <3>2
  <2>14. c \in CallEvents
    <3>1. e \in Seq(CallConds)
      BY <2>11
    <3> QED BY <2>9, <2>10, <3>1 DEF CallEvents
  <2> QED BY <2>12, <2>13, <2>14
<1>6. CASE n = 13
  <2>1. /\ Dollar(n, 2) = V(5) /\ Dollar(n, 4) = V(3) /\ Dollar(n, 6) = V(1) /\ size = 7
        /\ S(0) = 33 /\ S(1) = 28 /\ S(2) = 24 /\ S(3) = 22 /\ S(4) = 20
        /\ S(5) = 16 /\ S(6) = 4
    BY <1>6, CommandIs
  <2>2. /\ YYSTOS[S(0) + 1] = 15 /\ YYSTOS[S(1) + 1] = 31 /\ YYSTOS[S(2) + 1] = 5
        /\ YYSTOS[S(3) + 1] = 36 /\ YYSTOS[S(4) + 1] = 4 /\ YYSTOS[S(5) + 1] = 33
    BY <2>1 DEF YYSTOS
  <2>3. ASSUME NEW j \in {0, 2, 3, 4, 5}, NEW f \in Nat, Pos(at, j + 1) = f
        PROVE  Pos(at, j) = f + 1 /\ Spells(line, YYSTOS[S(j) + 1], V(j), f, f + 1)
    <3>1. j \in Nat /\ j < Len(stack)
      BY <1>2, <1>6, TopIs
    <3>2. S(j) \notin {0, 1} /\ YYSTOS[S(j) + 1] \in (3 .. 24) \cup (33 .. 37)
      BY <2>1, <2>2
    <3> QED BY <2>3, <3>1, <3>2, NextSymbol
  <2>4. Pos(at, 6) = 1 /\ line[1].type = 3
    <3>1. Place(line, 4, Pos(at, 6))
      <4>1. 6 \in Nat /\ 6 < Len(stack)
        BY <1>2, <1>6
      <4>2. S(6) = 4
        BY <2>1
      <4> QED BY <4>1, <4>2, PlaceOf
    <3> QED BY <3>1 DEF Place, Reached, InSelect
  <2>5. Pos(at, 5) = 2 /\ Spells(line, 33, V(5), 1, 2)
    <3>1. Pos(at, 5 + 1) = 1
      BY <2>4
    <3>2. Pos(at, 5) = 1 + 1 /\ Spells(line, YYSTOS[S(5) + 1], V(5), 1, 1 + 1)
      BY <2>3, <3>1
    <3> QED BY <2>2, <3>2
  <2>6. Pos(at, 4) = 3
    <3>1. Pos(at, 4 + 1) = 2
      BY <2>5
    <3>2. Pos(at, 4) = 2 + 1
      BY <2>3, <3>1
    <3> QED BY <3>2
  <2>7. Pos(at, 3) = 4 /\ Spells(line, 36, V(3), 3, 4)
    <3>1. Pos(at, 3 + 1) = 3
      BY <2>6
    <3>2. Pos(at, 3) = 3 + 1 /\ Spells(line, YYSTOS[S(3) + 1], V(3), 3, 3 + 1)
      BY <2>3, <3>1
    <3> QED BY <2>2, <3>2
  <2>8. Pos(at, 2) = 5
    <3>1. Pos(at, 2 + 1) = 4
      BY <2>7
    <3>2. Pos(at, 2) = 4 + 1
      BY <2>3, <3>1
    <3> QED BY <3>2
  <2> DEFINE a == V(1).conds
             L == Len(a)
  <2>9. /\ L \in Nat /\ Pos(at, 1) = 5 + 4 * L - 1
        /\ \A i \in 1 .. L : IsCond(line, a[i], 5 + 4 * (i - 1))
    <3>1. Spells(line, 31, V(1), Pos(at, 1 + 1), Pos(at, 1))
      <4>1. 1 \in Nat /\ 1 < Len(stack) /\ S(1) \notin {0, 1}
        BY <1>2, <1>6, <2>1, TopIs
      <4> QED BY <2>2, <4>1, Symbol
    <3>2. Spells(line, 31, V(1), 5, Pos(at, 1))
      BY <2>8, <3>1
    <3> QED BY <3>2, SpellsIs
  <2>10. Len(line) = 4 * L + 5
    <3> HIDE DEF L
    <3>1. 4 * L + 4 \in Nat /\ Pos(at, 0 + 1) = 4 * L + 4
      BY <2>9
    <3>2. Pos(at, 0) = (4 * L + 4) + 1
      BY <2>3, <3>1
    <3> QED BY <1>1, <2>9, <3>2
  <2>11. V(5).integer = AttrNumber(line[2]) /\ V(3).text = line[4].text
    BY <2>5, <2>7, SpellsIs
  <2>12. V(5).integer \in Int /\ V(3).text \in Words /\ a \in Seq(Conditions)
    <3>1. Meets(33, V(5)) /\ Meets(36, V(3)) /\ Meets(31, V(1))
      BY <1>3, <2>1, <2>2
    <3>2. V(5) \in Integer /\ V(3) \in Strings /\ a \in Seq(Conditions)
      BY <3>1 DEF Meets
    <3> QED BY <1>4, <3>2 DEF Integer
  <2> HIDE DEF a
  <2> DEFINE asked(i) == [attr |-> AttrNumber(line[4 * i + 2]),
                          comp |-> CompOf[line[4 * i + 3].type],
                          value |-> line[4 * i + 4].text]
             e == [i \in 1 .. L |-> asked(i)]
             c == [op |-> "select", attr |-> AttrNumber(line[2]), table |-> line[4].text,
                   conds |-> e]
  <2>13. \A i \in 1 .. L : CondCall(a[i]) = asked(i) /\ asked(i) \in CallConds
    <3> SUFFICES ASSUME NEW i \in 1 .. L
                 PROVE  CondCall(a[i]) = asked(i) /\ CondCall(a[i]) \in CallConds
      OBVIOUS
    <3>1. IsCond(line, a[i], 5 + 4 * (i - 1))
      BY <2>9
    <3>2. /\ 5 + 4 * (i - 1) + 1 = 4 * i + 2
          /\ 5 + 4 * (i - 1) + 2 = 4 * i + 3
          /\ 5 + 4 * (i - 1) + 3 = 4 * i + 4
      <4> HIDE DEF L
      <4> QED BY <2>9
    <3>3. /\ a[i].attr = AttrNumber(line[4 * i + 2])
          /\ a[i].comp = CompOf[line[4 * i + 3].type]
          /\ a[i].value.text = line[4 * i + 4].text
      BY <3>1, <3>2 DEF IsCond
    <3>4. a[i] \in Conditions
      BY <2>12
    <3>5. a[i].attr \in Int /\ a[i].comp \in Int /\ a[i].value.text \in Words
      BY <1>4, <3>4 DEF Conditions, Junk
    <3> QED BY <3>3, <3>5 DEF CondCall, CallConds
  <2>14. Meaning(line) = <<c>>
    <3>1. (Len(line) - 5) \div 4 = L
      <4> HIDE DEF L
      <4> QED BY <2>9, <2>10
    <3>2. Meaning(line) =
            <<[op |-> "select", attr |-> AttrNumber(line[2]), table |-> line[4].text,
               conds |-> [i \in 1 .. (Len(line) - 5) \div 4 |-> asked(i)]]>>
      BY <2>4, MeaningIs
    <3> QED BY <3>1, <3>2
  <2>15. DOMAIN a = 1 .. L
    BY <2>12
  <2> HIDE DEF L, asked
  <2>16. [i \in DOMAIN a |-> CondCall(a[i])] = e
    BY <2>13, <2>15
  <2>17. e \in Seq(CallConds)
    <3>1. e \in [1 .. L -> CallConds]
      BY <2>13
    <3> QED BY <2>9, <3>1, SeqDef
  <2> HIDE DEF e
  <2>18. RuleOutput(n) = <<c>>
    <3>1. RuleOutput(n) = <<SelectCall(V(5), V(3), a)>>
      BY <1>6, <2>1 DEF RuleOutput, a
    <3>2. SelectCall(V(5), V(3), a) = c
      BY <2>11, <2>16 DEF SelectCall
    <3> QED BY <3>1, <3>2
  <2>19. c \in CallEvents
    BY <2>11, <2>12, <2>17 DEF CallEvents
  <2> QED BY <2>14, <2>18, <2>19 DEF e
<1>7. CASE n = 10
  <2>1. /\ Dollar(n, 2) = V(3) /\ Dollar(n, 4) = V(1) /\ size = 5
        /\ S(0) = 27 /\ S(1) = 23 /\ S(2) = 21 /\ S(3) = 19 /\ S(4) = 5
    BY <1>7, CommandIs
  <2>2. /\ YYSTOS[S(0) + 1] = 15 /\ YYSTOS[S(1) + 1] = 17 /\ YYSTOS[S(2) + 1] = 4
        /\ YYSTOS[S(3) + 1] = 36
    BY <2>1 DEF YYSTOS
  <2>3. ASSUME NEW j \in 0 .. 3, NEW f \in Nat, Pos(at, j + 1) = f
        PROVE  Pos(at, j) = f + 1 /\ Spells(line, YYSTOS[S(j) + 1], V(j), f, f + 1)
    <3>1. j \in Nat /\ j < Len(stack)
      BY <1>2, <1>7, TopIs
    <3>2. S(j) \notin {0, 1} /\ YYSTOS[S(j) + 1] \in (3 .. 24) \cup (33 .. 37)
      BY <2>1, <2>2
    <3> QED BY <2>3, <3>1, <3>2, NextSymbol
  <2>4. Pos(at, 4) = 1 /\ line[1].type = 6
    <3>1. Place(line, 5, Pos(at, 4))
      <4>1. size < Len(stack) /\ Len(stack) \in Nat
        BY TopIs DEF Rule
      <4>2. 4 \in Nat /\ 4 < Len(stack)
        BY <2>1, <4>1
      <4>3. S(4) = 5
        BY <2>1
      <4> QED BY <4>2, <4>3, PlaceOf
    <3> QED BY <3>1 DEF Place, Reached, InLoad
  <2>5. Pos(at, 3) = 2 /\ Spells(line, 36, V(3), 1, 2)
    <3>1. Pos(at, 3 + 1) = 1
      BY <2>4
    <3>2. Pos(at, 3) = 1 + 1 /\ Spells(line, YYSTOS[S(3) + 1], V(3), 1, 1 + 1)
      BY <2>3, <3>1
    <3> QED BY <2>2, <3>2
  <2>6. Pos(at, 2) = 3
    <3>1. Pos(at, 2 + 1) = 2
      BY <2>5
    <3>2. Pos(at, 2) = 2 + 1
      BY <2>3, <3>1
    <3> QED BY <3>2
  <2>7. Pos(at, 1) = 4 /\ Spells(line, 17, V(1), 3, 4)
    <3>1. Pos(at, 1 + 1) = 3
      BY <2>6
    <3>2. Pos(at, 1) = 3 + 1 /\ Spells(line, YYSTOS[S(1) + 1], V(1), 3, 3 + 1)
      BY <2>3, <3>1
    <3> QED BY <2>2, <3>2
  <2>8. Len(line) = 5
    <3>1. Pos(at, 0 + 1) = 4
      BY <2>7
    <3>2. Pos(at, 0) = 4 + 1
      BY <2>3, <3>1
    <3> QED BY <1>1, <3>2
  <2>9. V(3).text = line[2].text /\ V(1).text = line[4].text
    BY <2>5, <2>7, SpellsIs
  <2>10. V(3).text \in Words /\ V(1).text \in Words
    <3>1. Meets(36, V(3)) /\ Meets(17, V(1))
      BY <1>3, <2>1, <2>2
    <3>2. V(3) \in Strings /\ V(1) \in Strings
      BY <3>1 DEF Meets
    <3> QED BY <1>4, <3>2
  <2> DEFINE c == [op |-> "load", table |-> line[2].text, file |-> line[4].text,
                   index |-> FALSE]
  <2>11. Meaning(line) = <<c>>
    <3>1. (Len(line) = 7) = FALSE
      BY <2>8
    <3>2. Meaning(line) = <<[op |-> "load", table |-> line[2].text, file |-> line[4].text,
                             index |-> Len(line) = 7]>>
      BY <2>4, MeaningIs, Zenon
    <3> QED BY <3>1, <3>2, Zenon
  <2>12. RuleOutput(n) = <<c>>
    <3>1. RuleOutput(n) = <<LoadCall(V(3), V(1), FALSE)>>
      BY <1>7, <2>1, LoadOutput, Zenon
    <3>2. LoadCall(V(3), V(1), FALSE) = c
      BY <2>9 DEF LoadCall
    <3> QED BY <3>1, <3>2
  <2>13. c \in CallEvents
    BY <2>9, <2>10 DEF CallEvents
  <2> QED BY <2>11, <2>12, <2>13
<1>8. CASE n = 11
  <2>1. /\ Dollar(n, 2) = V(5) /\ Dollar(n, 4) = V(3) /\ size = 7
        /\ S(0) = 41 /\ S(1) = 31 /\ S(2) = 26 /\ S(3) = 23 /\ S(4) = 21
        /\ S(5) = 19 /\ S(6) = 5
    BY <1>8, CommandIs
  <2>2. /\ YYSTOS[S(0) + 1] = 15 /\ YYSTOS[S(1) + 1] = 8 /\ YYSTOS[S(2) + 1] = 7
        /\ YYSTOS[S(3) + 1] = 17 /\ YYSTOS[S(4) + 1] = 4 /\ YYSTOS[S(5) + 1] = 36
    BY <2>1 DEF YYSTOS
  <2>3. ASSUME NEW j \in 0 .. 5, NEW f \in Nat, Pos(at, j + 1) = f
        PROVE  Pos(at, j) = f + 1 /\ Spells(line, YYSTOS[S(j) + 1], V(j), f, f + 1)
    <3>1. j \in Nat /\ j < Len(stack)
      BY <1>2, <1>8, TopIs
    <3>2. S(j) \notin {0, 1} /\ YYSTOS[S(j) + 1] \in (3 .. 24) \cup (33 .. 37)
      BY <2>1, <2>2
    <3> QED BY <2>3, <3>1, <3>2, NextSymbol
  <2>4. Pos(at, 6) = 1 /\ line[1].type = 6
    <3>1. Place(line, 5, Pos(at, 6))
      <4>1. 6 \in Nat /\ 6 < Len(stack)
        BY <1>2, <1>8
      <4>2. S(6) = 5
        BY <2>1
      <4> QED BY <4>1, <4>2, PlaceOf
    <3> QED BY <3>1 DEF Place, Reached, InLoad
  <2>5. Pos(at, 5) = 2 /\ Spells(line, 36, V(5), 1, 2)
    <3>1. Pos(at, 5 + 1) = 1
      BY <2>4
    <3>2. Pos(at, 5) = 1 + 1 /\ Spells(line, YYSTOS[S(5) + 1], V(5), 1, 1 + 1)
      BY <2>3, <3>1
    <3> QED BY <2>2, <3>2
  <2>6. Pos(at, 4) = 3
    <3>1. Pos(at, 4 + 1) = 2
      BY <2>5
    <3>2. Pos(at, 4) = 2 + 1
      BY <2>3, <3>1
    <3> QED BY <3>2
  <2>7. Pos(at, 3) = 4 /\ Spells(line, 17, V(3), 3, 4)
    <3>1. Pos(at, 3 + 1) = 3
      BY <2>6
    <3>2. Pos(at, 3) = 3 + 1 /\ Spells(line, YYSTOS[S(3) + 1], V(3), 3, 3 + 1)
      BY <2>3, <3>1
    <3> QED BY <2>2, <3>2
  <2>8. Len(line) = 7
    <3>1. Pos(at, 2 + 1) = 4
      BY <2>7
    <3>2. Pos(at, 2) = 4 + 1
      BY <2>3, <3>1
    <3>3. Pos(at, 1 + 1) = 5
      BY <3>2
    <3>4. Pos(at, 1) = 5 + 1
      BY <2>3, <3>3
    <3>5. Pos(at, 0 + 1) = 6
      BY <3>4
    <3>6. Pos(at, 0) = 6 + 1
      BY <2>3, <3>5
    <3> QED BY <1>1, <3>6
  <2>9. V(5).text = line[2].text /\ V(3).text = line[4].text
    BY <2>5, <2>7, SpellsIs
  <2>10. V(5).text \in Words /\ V(3).text \in Words
    <3>1. Meets(36, V(5)) /\ Meets(17, V(3))
      BY <1>3, <2>1, <2>2
    <3>2. V(5) \in Strings /\ V(3) \in Strings
      BY <3>1 DEF Meets
    <3> QED BY <1>4, <3>2
  <2> DEFINE c == [op |-> "load", table |-> line[2].text, file |-> line[4].text,
                   index |-> TRUE]
  <2>11. Meaning(line) = <<c>>
    <3>1. (Len(line) = 7) = TRUE
      BY <2>8
    <3>2. Meaning(line) = <<[op |-> "load", table |-> line[2].text, file |-> line[4].text,
                             index |-> Len(line) = 7]>>
      BY <2>4, MeaningIs, Zenon
    <3> QED BY <3>1, <3>2, Zenon
  <2>12. RuleOutput(n) = <<c>>
    <3>1. RuleOutput(n) = <<LoadCall(V(5), V(3), TRUE)>>
      BY <1>8, <2>1, LoadOutput, Zenon
    <3>2. LoadCall(V(5), V(3), TRUE) = c
      BY <2>9 DEF LoadCall
    <3> QED BY <3>1, <3>2
  <2>13. c \in CallEvents
    BY <2>9, <2>10 DEF CallEvents
  <2> QED BY <2>11, <2>12, <2>13
<1> QED BY <1>5, <1>6, <1>7, <1>8

\* The rules that are no part of a command.
LEMMA LineRules ==
  ASSUME NEW s, NEW n, NEW size, NEW y, Reduces(s, n, size, y)
  PROVE  /\ s = 0 => n = 3 /\ size = 0 /\ y = 26
         /\ s = 8 => n = 2 /\ size = 2 /\ y = 26
         /\ s \in {10, 11} => n \in {4, 5}
         /\ s = 12 => n = 7
         /\ n \in {4, 5, 7, 8} => y = 27
         /\ n \in 10 .. 13 => y \in {29, 30} /\ s \in {25, 27, 33, 41}
         /\ n \in 14 .. 29 => s \notin {25, 27, 33, 41, 7}
         /\ n \in {1, 2, 3, 6} => s \in {0, 2, 8, 9}
<1>1. CASE s \in {0, 8, 10, 11, 12}
  BY <1>1 DEF Reduces
<1>2. CASE s \notin {0, 8, 10, 11, 12}
  <2>1. n \in {4, 5, 7, 8} => y = 27
    BY <1>2 DEF Reduces
  <2>2. n \in 10 .. 13 => y \in {29, 30} /\ s \in {25, 27, 33, 41}
    BY <1>2 DEF Reduces
  <2>3. n \in 14 .. 29 => s \notin {25, 27, 33, 41, 7}
    BY <1>2 DEF Reduces
  <2>4. n \in {1, 2, 3, 6} => s \in {0, 2, 8, 9}
    BY <1>2 DEF Reduces
  <2> QED BY <1>2, <2>1, <2>2, <2>3, <2>4
<1> QED BY <1>1, <1>2

\* What the rules within a command print.
LEMMA QuietOutput ==
  ASSUME NEW n \in (14 .. 29) \cup {2, 3}
  PROVE  RuleOutput(n) = <<>> \/ RuleOutput(n) = <<[op |-> "wrong attribute name"]>>
<1>1. n \notin {10, 11, 12, 13}
  OBVIOUS
<1>2. CASE n = 20 /\ Dollar(n, 1).text \notin {"key", "value"}
  BY <1>1, <1>2 DEF RuleOutput
<1>3. CASE ~(n = 20 /\ Dollar(n, 1).text \notin {"key", "value"})
  BY <1>1, <1>3 DEF RuleOutput
<1> QED BY <1>2, <1>3

LEMMA OneMore ==
  ASSUME NEW s \in Seq(Events), NEW e \in Events
  PROVE  LET a == s \o <<e>> IN
         /\ a \in Seq(Events) /\ a # <<>> /\ Len(a) = Len(s) + 1 /\ Len(s) \in Nat
         /\ a[Len(s) + 1] = e /\ \A i \in 1 .. Len(s) : a[i] = s[i]
         /\ DOMAIN a = 1 .. Len(s) + 1 /\ DOMAIN s = 1 .. Len(s)
OBVIOUS

LEMMA NotLast ==
  ASSUME NEW n \in Nat, NEW i \in 1 .. n + 1, i # n + 1
  PROVE  i \in 1 .. n
OBVIOUS

LEMMA QuietKeeps ==
  ASSUME HistoryIn, NEW o, o = <<>> \/ o = <<[op |-> "wrong attribute name"]>>, Harmless(out)
  PROVE  out \o o \in Seq(Events) /\ Harmless(out \o o)
<1>1. out \in Seq(Events)
  BY DEF HistoryIn
<1>2. CASE o = <<>>
  <2>1. out \o o = out
    BY <1>1, <1>2, ConcatEmptySeq
  <2> QED BY <1>1, <2>1
<1>3. CASE o = <<[op |-> "wrong attribute name"]>>
  <2>1. [op |-> "wrong attribute name"] \in Events
    BY DEF Events
  <2> PICK e : e = [op |-> "wrong attribute name"]
    OBVIOUS
  <2>8. e \in Events /\ e.op = "wrong attribute name"
    BY <2>1
  <2> DEFINE a == out \o <<e>>
             n == Len(out)
  <2>2. /\ a \in Seq(Events) /\ n \in Nat /\ a[n + 1] = e /\ \A i \in 1 .. n : a[i] = out[i]
        /\ DOMAIN a = 1 .. n + 1 /\ DOMAIN out = 1 .. n
    <3>1. e \in Events
      BY <2>8
    <3> QED BY <1>1, <3>1, OneMore
  <2>3. out \o o = a
    BY <1>3
  <2> HIDE DEF a
  <2>9. n \in Nat
    BY <2>2
  <2> HIDE DEF n
  <2>4. ASSUME NEW i \in 1 .. n + 1 PROVE a[i].op = "wrong attribute name"
    <3>1. CASE i = n + 1
      BY <2>8, <2>2, <3>1
    <3>2. CASE i # n + 1
      <4>1. i \in 1 .. n
        BY <2>9, <3>2, NotLast
      <4>2. out[i].op = "wrong attribute name"
        BY <2>2, <4>1 DEF Harmless
      <4> QED BY <2>2, <4>1, <4>2
    <3> QED BY <3>1, <3>2
  <2>5. Harmless(a)
    BY <2>2, <2>4 DEF Harmless
  <2> QED BY <2>2, <2>3, <2>5
<1> QED BY <1>2, <1>3

\* The first rule, and that of a command that has been answered.
LEMMA StartsLine ==
  ASSUME FullInv, Fresh, NEW v, Pushed(1, 1, v),
         Top' = 1, yychar' = YYEMPTY, yyerrstatus' = yyerrstatus, began' = began,
         line' = line, out' = <<>>
  PROVE  Spelt'
<1>1. Len(stack') = 2 /\ stack'[2].state = 1
  BY DEF Pushed
<1>2. line' = <<>> /\ Consumed' = 0
  BY TypedFacts DEF Fresh, Consumed
<1> DEFINE b == [i \in 1 .. 2 |-> 0]
<1>3. b \in [1 .. 2 -> Nat] /\ b[2] = 0
  OBVIOUS
<1> HIDE DEF b
<1>4. SpeltIn(line', stack', Consumed', b)
  BY <1>1, <1>2, <1>3 DEF SpeltIn
<1>5. WellFormed'
  <2>1. Harmless(out')
    <3>1. DOMAIN <<>> = {}
      OBVIOUS
    <3> QED BY <3>1 DEF Harmless
  <2>2. yyerrstatus <= began
    BY DEF Fresh, FullInv, HistoryIn
  <2>3. ~Ended(line')
    BY <1>2 DEF Ended
  <2> QED BY <1>2, <2>1, <2>2, <2>3, TypedFacts DEF WellFormed
<1> QED BY <1>4, <1>5 DEF Spelt, SpeltAt

LEMMA FirstRule ==
  ASSUME StackInv, Top \in {0, 8}, NEW n, NEW size, NEW y, NEW g, Rule(n, size, y, g)
  PROVE  n \in {2, 3} /\ g = 1 /\ Len(stack) - size = 1
<1>1. Reduces(Top, n, size, y)
  BY DEF Rule
<1>2. (Top = 0 => n = 3 /\ size = 0 /\ y = 26) /\ (Top = 8 => n = 2 /\ size = 2 /\ y = 26)
  BY <1>1, LineRules
<1>3. Goes(S(size), 26, g) /\ size < Len(stack)
  BY <1>2 DEF Rule
<1>4. g = 1
  BY <1>3 DEF Goes
<1>5. Depth[1] = 0 /\ Depth[9] = 2
  BY DEF Depth
<1> DEFINE k == Len(stack)
<1>6. k \in 1 .. 12 /\ (Top = 0 => 1 >= k) /\ (Top = 8 => 3 >= k) /\ size < k
  BY <1>3, <1>5, TopIs
<1> HIDE DEF k
<1>7. k - size = 1
  BY <1>2, <1>6
<1> QED BY <1>2, <1>4, <1>7 DEF k

\* A rule within a command.
LEMMA Grows ==
  ASSUME FullInv, Spelt, yychar = YYEMPTY, NEW n \in 14 .. 29, NEW size, NEW y, NEW g,
         Rule(n, size, y, g), Pushed(Len(stack) - size, g, RuleValue(n)),
         YYSTOS[g + 1] = y, Top' = g, yychar' = yychar, yyerrstatus' = yyerrstatus,
         out' = out \o RuleOutput(n), line' = line, began' = began
  PROVE  Spelt' /\ HistoryIn'
<1>0. PICK at : SpeltAt(at)
  BY DEF Spelt
<1> DEFINE m == Len(stack) - size
<1>1. /\ size \in 1 .. 3 /\ S(size) \notin {0, 1} /\ size < Len(stack)
      /\ Pos(at, 0) \in Nat
      /\ Spells(line, y, RuleValue(n), Pos(at, size), Pos(at, 0))
      /\ Place(line, g, Pos(at, 0))
  BY <1>0, RuleSpells DEF FullInv, TypeInv
<1>2. Len(stack) \in Nat /\ stack[1].state = 0
  BY TopIs DEF FullInv, TypeInv, StackInv, StackIn
<1>3. m >= 2 /\ m \in Nat
  <2>1. m \in Nat /\ m >= 1
    BY <1>1, <1>2
  <2>2. m # 1
    BY <1>1, <1>2 DEF S
  <2> HIDE DEF m
  <2> QED BY <2>1, <2>2
<1>4. Consumed = Len(line) /\ Consumed' = Len(line) /\ Pos(at, 0) = Len(line)
  <2>1. Consumed = Len(line) /\ Consumed' = Len(line)
    BY DEF Consumed
  <2> QED BY <1>0, <2>1, PosTop DEF FullInv, TypeInv
<1>5. Len(line) \in Nat
  BY DEF FullInv, HistoryIn
<1>6. Spells(line, YYSTOS[g + 1], RuleValue(n), at[m], Len(line))
  BY <1>1, <1>4 DEF Pos
<1>7. Pushed(m, g, RuleValue(n))
  OBVIOUS
<1> HIDE DEF m
<1>8. \E b : SpeltAt(b)'
  BY <1>0, <1>1, <1>3, <1>4, <1>5, <1>6, <1>7, Extend
<1>9. out' \in Seq(Events) /\ Harmless(out')
  <2>1. HistoryIn /\ Harmless(out)
    BY DEF FullInv, Spelt, WellFormed
  <2>2. RuleOutput(n) = <<>> \/ RuleOutput(n) = <<[op |-> "wrong attribute name"]>>
    BY QuietOutput
  <2> QED BY <2>1, <2>2, QuietKeeps
<1>10. Top \notin {7, 25, 27, 33, 41} /\ g \notin {7, 25, 27, 33, 41}
  <2>1. Reduces(Top, n, size, y) /\ Goes(S(size), y, g)
    <3>1. n # 9
      OBVIOUS
    <3> QED BY <3>1 DEF Rule
  <2>2. Top \notin {7, 25, 27, 33, 41}
    BY <2>1, LineRules
  <2>3. g \notin {7, 25, 27, 33, 41}
    <3>1. Goes(S(size), y, g)
      BY <2>1
    <3> QED BY <3>1, SMTT(30) DEF Goes
  <2> QED BY <2>2, <2>3
<1>11. WellFormed'
  BY <1>9, <1>10, TypedFacts DEF Spelt, WellFormed
<1>12. HistoryIn'
  BY <1>9 DEF FullInv, HistoryIn
<1> QED BY <1>8, <1>11, <1>12 DEF Spelt

\* A rule that is a command.
LEMMA Calls1 ==
  ASSUME FullInv, Spelt, yychar = YYEMPTY, NEW n \in 10 .. 13, NEW size, NEW y, NEW g,
         Rule(n, size, y, g), Top' = g, yychar' = yychar,
         out' = out \o RuleOutput(n), line' = line, began' = began
  PROVE  Answered' /\ HistoryIn'
<1>0. PICK at : SpeltAt(at)
  BY DEF Spelt
<1>1. PICK c \in CallEvents : RuleOutput(n) = <<c>> /\ Meaning(line) = <<c>>
  BY <1>0, RuleCalls DEF FullInv, TypeInv
<1>2. Reduces(Top, n, size, y) /\ Goes(S(size), y, g)
  BY DEF Rule
<1>3. y \in {29, 30} /\ Top \in {25, 27, 33, 41}
  BY <1>2, LineRules
<1>4. g \in {10, 11}
  BY <1>2, <1>3 DEF Goes
<1>5. Ended(line) /\ ~IllFormed(line) /\ Harmless(out)
  BY <1>3 DEF Spelt, WellFormed, Ended
<1>6. out \in Seq(Events) /\ c \in Events
  BY DEF FullInv, HistoryIn, Events
<1> DEFINE k == Len(out)
           a == out \o <<c>>
<1>7. a \in Seq(Events) /\ Len(a) = k + 1 /\ a[k + 1] = c /\ k \in Nat
      /\ \A i \in 1 .. k : a[i] = out[i]
  BY <1>6
<1>8. out' = a
  BY <1>1
<1> HIDE DEF a
<1>9. DOMAIN out = 1 .. k /\ a # <<>> /\ Last(a) = c
  BY <1>6, <1>7 DEF Last
<1> HIDE DEF k
<1>10. \A i \in 1 .. Len(a) - 1 : a[i].op = "wrong attribute name"
  <2>1. Len(a) - 1 = k
    BY <1>7
  <2>2. \A i \in 1 .. k : out[i].op = "wrong attribute name"
    BY <1>5, <1>9 DEF Harmless
  <2> QED BY <1>7, <2>1, <2>2
<1>11. Answered'
  BY <1>1, <1>4, <1>5, <1>8, <1>9, <1>10 DEF Answered
<1>12. HistoryIn'
  BY <1>7, <1>8 DEF FullInv, HistoryIn
<1> QED BY <1>11, <1>12

LEMMA ReduceLine ==
  ASSUME FullInv, Reduce
  PROVE  FullInv'
<1>1. PICK n, size, y, g :
           /\ Rule(n, size, y, g) /\ yychar = YYEMPTY /\ yychar' = yychar
           /\ yyerrstatus' = yyerrstatus
           /\ n = QuitRule => result' = "0" /\ UNCHANGED history
           /\ n # QuitRule =>
                /\ Pushed(Len(stack) - size, g, RuleValue(n))
                /\ YYSTOS[g + 1] = y /\ Top' = g
                /\ \/ /\ n \in PromptRules
                      /\ line' = <<>> /\ out' = <<>> /\ began' = yyerrstatus
                   \/ /\ n \notin PromptRules
                      /\ out' = out \o RuleOutput(n)
                      /\ UNCHANGED <<line, began>>
  BY ReduceFacts DEF FullInv
<1>2. TypeInv' /\ QuitRule = 9 /\ PromptRules = {4, 5, 7, 8}
  BY ReduceKeeps DEF FullInv, QuitRule, PromptRules
<1>3. Running /\ Top \notin Reading /\ n \in 1 .. 29 /\ Reduces(Top, n, size, y)
  <2>1. Running
    BY DEF Reduce, DefaultsNow, Decided
  <2> QED BY <1>1, <2>1 DEF Rule
<1>4. CASE n = 9
  <2>1. UNCHANGED <<line, out, began>> /\ ~Running'
    BY <1>1, <1>2, <1>4 DEF history, Running
  <2> QED BY <1>2, <2>1 DEF FullInv, HistoryIn, LineInv
<1>5. CASE n \in {4, 5, 7, 8}
  <2>1. g = 8
    <3>1. Goes(S(size), 27, g)
      BY <1>1, <1>3, <1>5, LineRules DEF Rule
    <3> QED BY <3>1 DEF Goes
  <2>2. line' = <<>> /\ out' = <<>> /\ began' = yyerrstatus /\ Top' = 8
    BY <1>1, <1>2, <1>5, <2>1
  <2>3. HistoryIn'
    BY <2>2 DEF FullInv, HistoryIn, TypeInv, StatusInv
  <2>4. Fresh'
    BY <1>1, <2>2 DEF Fresh
  <2> QED BY <1>2, <2>3, <2>4 DEF FullInv, LineInv
<1>6. CASE n \notin {4, 5, 7, 8, 9}
  <2>1. /\ Pushed(Len(stack) - size, g, RuleValue(n)) /\ YYSTOS[g + 1] = y /\ Top' = g
        /\ out' = out \o RuleOutput(n) /\ UNCHANGED <<line, began>>
    BY <1>1, <1>2, <1>6
  <2>2. Fresh \/ Spelt
    <3>1. Fresh \/ Spelt \/ Answered \/ Misfit \/ Skipping \/ Cut
      BY <1>3 DEF FullInv, LineInv
    <3>2. Top # 3
      BY <1>3 DEF Reading
    <3>3. Top \notin {10, 11, 12}
      BY <1>3, <1>6, LineRules
    <3> QED BY <1>1, <3>1, <3>2, <3>3 DEF Answered, Misfit, Skipping, Cut
  <2>3. CASE Fresh
    <3>1. n \in {2, 3} /\ g = 1 /\ Len(stack) - size = 1
      BY <1>1, <2>3, FirstRule DEF Fresh, FullInv, TypeInv
    <3>2. out' = <<>>
      <4>1. RuleOutput(n) = <<>>
        BY <3>1 DEF RuleOutput
      <4>2. out = <<>>
        BY <2>3 DEF Fresh
      <4> QED BY <2>1, <4>1, <4>2
    <3>3. Spelt'
      BY <1>1, <2>1, <2>3, <3>1, <3>2, StartsLine
    <3>4. HistoryIn'
      BY <2>1, <3>2 DEF FullInv, HistoryIn
    <3> QED BY <1>2, <3>3, <3>4 DEF FullInv, LineInv
  <2>4. CASE Spelt
    <3>1. n \in 10 .. 29
      <4>1. PICK at : SpeltAt(at)
        BY <2>4 DEF Spelt
      <4>2. Reached(Top, Consumed)
        BY <4>1, TopPlace DEF FullInv, TypeInv, Place
      <4>3. ASSUME NEW s \in {0, 2, 8, 9}, NEW i, Reached(s, i) PROVE FALSE
        BY <4>3 DEF Reached
      <4>4. Top \notin {0, 2, 8, 9}
        BY <4>2, <4>3
      <4>5. n \notin {1, 2, 3, 6}
        BY <1>3, <4>4, LineRules
      <4> QED BY <1>3, <1>6, <4>5
    <3>2. CASE n \in 10 .. 13
      <4>1. Answered' /\ HistoryIn'
        BY <1>1, <2>1, <2>4, <3>2, Calls1
      <4> QED BY <1>2, <4>1 DEF FullInv, LineInv
    <3>3. CASE n \in 14 .. 29
      <4>1. Spelt' /\ HistoryIn'
        BY <1>1, <2>1, <2>4, <3>3, Grows
      <4> QED BY <1>2, <4>1 DEF FullInv, LineInv
    <3> QED BY <3>1, <3>2, <3>3
  <2> QED BY <2>2, <2>3, <2>4
<1> QED BY <1>4, <1>5, <1>6

LEMMA LineInit ==
  Init => FullInv
<1> SUFFICES ASSUME Init PROVE FullInv
  OBVIOUS
<1>1. line = <<>> /\ out = <<>> /\ began = 0 /\ yyerrstatus = 0 /\ yychar = YYEMPTY
  BY DEF Init
<1>2. Top = 0
  <2>1. stack = <<[state |-> 0, val |-> Garbage]>>
    BY DEF Init
  <2> QED BY <2>1 DEF Top, Last
<1>3. HistoryIn
  BY <1>1 DEF HistoryIn
<1>4. Fresh
  BY <1>1, <1>2 DEF Fresh
<1> QED BY <1>3, <1>4, TypeInit DEF FullInv, LineInv

LEMMA LineStep ==
  FullInv /\ [Next]_vars => FullInv'
<1> SUFFICES ASSUME FullInv, [Next]_vars PROVE FullInv'
  OBVIOUS
<1>1. CASE \E type \in Typed : \E x \in Texts(type) : ReadToken([type |-> type, text |-> x])
  BY <1>1, ReadLine
<1>2. CASE Drive
  BY <1>2, ReduceLine, ShiftLine, ErrorLine, StopLine DEF Drive
<1>3. CASE UNCHANGED vars
  <2>1. TypeInv'
    BY TypeStep DEF FullInv
  <2>2. HistoryIn'
    BY <1>3 DEF vars, FullInv, HistoryIn
  <2>3. /\ Top' = Top /\ Running' = Running /\ Consumed' = Consumed
        /\ yychar' = yychar /\ yylval' = yylval /\ yyerrstatus' = yyerrstatus
        /\ line' = line /\ out' = out /\ began' = began /\ stack' = stack
    BY <1>3 DEF vars, Top, Running, Consumed
  <2>4. LineInv'
    <3>1. (Fresh' <=> Fresh) /\ (Cut' <=> Cut)
      BY <2>3 DEF Fresh, Cut
    <3>2. (Answered' <=> Answered) /\ (Misfit' <=> Misfit)
      BY <2>3 DEF Answered, Misfit, Ill
    <3>3. Skipping' <=> Skipping
      BY <2>3 DEF Skipping, Ill, Reported
    <3>4. Spelt' <=> Spelt
      BY <2>3 DEF Spelt, WellFormed, SpeltAt
    <3> QED BY <2>3, <3>1, <3>2, <3>3, <3>4 DEF FullInv, LineInv
  <2> QED BY <2>1, <2>2, <2>4 DEF FullInv
<1> QED BY <1>1, <1>2, <1>3 DEF Next

\* In every state that is reached the symbols on the stack spell the line that
\* is being read, or the line has been called, or it is ill-formed and the
\* parser has found that out and skips it.
THEOREM LineUnderstood == Spec => []FullInv
BY LineInit, LineStep, PTL DEF Spec

\* No prompt is left out: yyparse reads a token only when the lines before it
\* have been answered, which is why bison's default reductions matter here.
THEOREM Prompts == Spec => PromptFirst
<1> DEFINE P == yychar = YYEMPTY /\ yychar' # YYEMPTY => ~Ended(line)
<1>1. FullInv /\ [Next]_vars => [P]_vars
  <2> SUFFICES ASSUME FullInv, Next, yychar = YYEMPTY, yychar' # YYEMPTY
               PROVE  ~Ended(line)
    BY DEF vars
  <2>1. ~Drive
    <3>1. ~Shift /\ ~Accept
      BY DEF Shift, Accept, ShiftsNow, Decided
    <3>2. ~Reduce /\ ~Recover /\ ~Abort
      BY DEF Reduce, Recover, Abort
    <3>3. ~Discard
      BY DEF Discard
    <3> QED BY <3>1, <3>2, <3>3 DEF Drive
  <2>2. Wants
    BY <2>1 DEF Next, ReadToken
  <2>3. Running /\ Top \in Reading
    BY <2>2, TopIs, PactIs DEF Wants, FullInv, TypeInv
  <2> QED BY <2>3, Unanswered
<1>2. Spec => [][P]_vars
  BY <1>1, LineUnderstood, PTL DEF Spec
<1> QED BY <1>2 DEF PromptFirst

\* How a line ends: called, empty, or skipped.
LEMMA AnswerState ==
  ASSUME FullInv, Next, line # <<>>, line' = <<>>
  PROVE  \/ Answered
         \/ Spelt /\ Top = 7 /\ yychar = YYEMPTY
         \/ Skipping /\ Top = 12
<1>1. ~\E type \in Typed : \E x \in Texts(type) : ReadToken([type |-> type, text |-> x])
  <2> SUFFICES ASSUME NEW type \in Typed, NEW x \in Texts(type),
                      ReadToken([type |-> type, text |-> x])
               PROVE  FALSE
    OBVIOUS
  <2> DEFINE t == [type |-> type, text |-> x]
  <2>1. line' = Noted(line, t)
    BY DEF ReadToken
  <2>2. t \in Tokens /\ line \in Seq(Tokens)
    BY TypedTokens DEF FullInv, HistoryIn
  <2> HIDE DEF t
  <2>3. Append(line, t) # <<>> /\ Append(BadLine, t) # <<>> /\ BadLine # <<>>
    BY <2>2, BadLineIs
  <2> QED BY <2>1, <2>3 DEF Noted
<1>2. ~(Accept \/ Shift \/ Recover \/ Discard \/ Abort)
  BY DEF Accept, Shift, Recover, Discard, Abort, history
<1>3. Reduce
  BY <1>1, <1>2 DEF Next, Drive
<1>4. PICK n, size, y, g :
           /\ Rule(n, size, y, g) /\ yychar = YYEMPTY
           /\ n = QuitRule => UNCHANGED history
           /\ n # QuitRule =>
                \/ n \in PromptRules
                \/ n \notin PromptRules /\ UNCHANGED <<line, began>>
  <2> HIDE DEF Reduce
  <2> QED BY <1>3, ReduceFacts DEF FullInv
<1>5. n \in PromptRules
  BY <1>4 DEF history
<1>6. Reduces(Top, n, size, y) /\ n \in {4, 5, 7, 8} /\ Running
  BY <1>3, <1>4, <1>5 DEF Rule, PromptRules, Reduce, DefaultsNow, Decided
<1>7. Top \in {7, 10, 11, 12}
  BY <1>6 DEF Reduces
<1>8. Fresh \/ Spelt \/ Answered \/ Misfit \/ Skipping \/ Cut
  BY <1>6 DEF FullInv, LineInv
<1>9. ~Fresh
  BY <1>7 DEF Fresh
<1>10. ~Misfit /\ ~Cut
  BY <1>4, TypedFacts DEF Misfit, Cut
<1>11. CASE Spelt
  <2>1. PICK at : SpeltAt(at)
    BY <1>11 DEF Spelt
  <2>2. Reached(Top, Consumed)
    BY <2>1, TopPlace DEF FullInv, TypeInv, Place
  <2>3. ASSUME NEW i PROVE ~Reached(10, i) /\ ~Reached(11, i) /\ ~Reached(12, i)
    BY DEF Reached
  <2>4. Top = 7
    BY <1>7, <2>2, <2>3
  <2> QED BY <1>4, <1>11, <2>4
<1>12. CASE Skipping
  BY <1>7, <1>12 DEF Skipping
<1> QED BY <1>8, <1>9, <1>10, <1>11, <1>12

\* What has been called and reported by then.
LEMMA CalledIs ==
  ASSUME FullInv, Answered
  PROVE  /\ Ended(line) /\ ~IllFormed(line) /\ Errors(out) = {}
         /\ Cardinality(Calls(out)) = Len(Meaning(line))
         /\ Called(out) = ToSet(Meaning(line))
<1> DEFINE k == Len(out)
           c == Last(out)
<1>1. /\ out \in Seq(Events) /\ out # <<>> /\ c \in CallEvents
      /\ \A i \in 1 .. k - 1 : out[i].op = "wrong attribute name"
      /\ Meaning(line) = <<c>>
      /\ Ended(line) /\ ~IllFormed(line)
  BY DEF Answered, FullInv, HistoryIn
<1>2. k \in Nat /\ k >= 1 /\ DOMAIN out = 1 .. k /\ out[k] = c
  <2>1. out \in Seq(Events) /\ out # <<>>
    BY <1>1
  <2> QED BY <2>1 DEF Last
<1>3. c.op \in {"load", "select"} /\ c.op # "syntax error"
  BY <1>1 DEF CallEvents
<1> HIDE DEF k, c
<1>4. \A i \in 1 .. k : i # k => out[i].op = "wrong attribute name"
  <2> SUFFICES ASSUME NEW i \in 1 .. k, i # k PROVE out[i].op = "wrong attribute name"
    OBVIOUS
  <2>1. i \in 1 .. k - 1
    BY <1>2
  <2> QED BY <1>1, <2>1
<1>5. k \in DOMAIN out
  BY <1>2
<1>6. Calls(out) = {k}
  BY <1>2, <1>3, <1>4, <1>5 DEF Calls
<1>7. Errors(out) = {}
  BY <1>2, <1>3, <1>4 DEF Errors
<1>8. Cardinality({k}) = 1
  BY FS_Singleton
<1>9. Len(<<c>>) = 1 /\ ToSet(<<c>>) = {c}
  BY DEF ToSet
<1>10. {out[i] : i \in {k}} = {c}
  BY <1>2
<1> QED BY <1>1, <1>6, <1>7, <1>8, <1>9, <1>10 DEF Called

LEMMA EmptyIs ==
  ASSUME FullInv, Spelt, Top = 7, yychar = YYEMPTY, line # <<>>
  PROVE  /\ Ended(line) /\ ~IllFormed(line) /\ Calls(out) = {} /\ Errors(out) = {}
         /\ Meaning(line) = <<>>
<1>1. Ended(line) /\ ~IllFormed(line) /\ Harmless(out)
  BY DEF Spelt, WellFormed
<1>2. PICK at : SpeltAt(at)
  BY DEF Spelt
<1>3. StackInv
  BY DEF FullInv, TypeInv
<1>4. S(0) = 7 /\ 0 \in Nat /\ 0 < Len(stack)
  BY <1>3, TopIs
<1>5. YYSTOS[7 + 1] = 15
  BY DEF YYSTOS
<1>6. /\ Spells(line, 15, V(0), Pos(at, 0 + 1), Pos(at, 0))
      /\ Place(line, 7, Pos(at, 0))
  <2>1. S(0) \notin {0, 1}
    BY <1>4
  <2>2. /\ Spells(line, YYSTOS[S(0) + 1], V(0), Pos(at, 0 + 1), Pos(at, 0))
        /\ Place(line, S(0), Pos(at, 0))
    BY <1>2, <1>3, <1>4, <2>1, Symbol
  <2> QED BY <1>4, <1>5, <2>2
<1>7. Pos(at, 0) = 1
  BY <1>6 DEF Place, Reached
<1>8. line[1].type = 15
  <2>1. Spells(line, 15, V(0), Pos(at, 0 + 1), 1)
    BY <1>6, <1>7
  <2> QED BY <2>1, SpellsIs
<1>9. Meaning(line) = <<>>
  BY <1>8, MeaningIs
<1> QED BY <1>1, <1>9, HarmlessIs

LEMMA SkippedIs ==
  ASSUME FullInv, Skipping, Top = 12
  PROVE  /\ Ended(line) /\ IllFormed(line) /\ Calls(out) = {}
         /\ Cardinality(Errors(out)) <= 1
         /\ began = 0 => Cardinality(Errors(out)) = 1
<1>1. Ill /\ Reported /\ Ended(line)
  BY DEF Skipping
<1> QED BY <1>1, IllIs DEF Reported

\* Every line is answered by the calls that it asks for: a command by its own,
\* with its attribute, table, file and conditions in their order, and any other
\* line by none, however the parser had to recover before it.
THEOREM Answers == Spec => AnswersLine
<1> DEFINE P == line # <<>> /\ line' = <<>> =>
                  /\ Ended(line)
                  /\ Cardinality(Calls(out)) = Len(Asked(line))
                  /\ Called(out) = ToSet(Asked(line))
<1>1. FullInv /\ [Next]_vars => [P]_vars
  <2> SUFFICES ASSUME FullInv, Next, line # <<>>, line' = <<>>
               PROVE  /\ Ended(line)
                      /\ Cardinality(Calls(out)) = Len(Asked(line))
                      /\ Called(out) = ToSet(Asked(line))
    BY DEF vars
  <2>1. Cardinality({}) = 0 /\ Len(<<>>) = 0 /\ ToSet(<<>>) = {}
    BY FS_EmptySet DEF ToSet
  <2>2. CASE Answered
    BY <2>2, CalledIs DEF Asked
  <2>3. CASE Spelt /\ Top = 7 /\ yychar = YYEMPTY
    <3>1. Ended(line) /\ Calls(out) = {} /\ Asked(line) = <<>>
      BY <2>3, EmptyIs DEF Asked
    <3> QED BY <2>1, <3>1 DEF Called
  <2>4. CASE Skipping /\ Top = 12
    <3>1. Ended(line) /\ Calls(out) = {} /\ Asked(line) = <<>>
      BY <2>4, SkippedIs DEF Asked
    <3> QED BY <2>1, <3>1 DEF Called
  <2> QED BY <2>2, <2>3, <2>4, AnswerState
<1>2. Spec => [][P]_vars
  <2> HIDE DEF P
  <2> QED BY <1>1, LineUnderstood, PTL DEF Spec
<1> QED BY <1>2 DEF AnswersLine

\* sqlerror is called at most once a line, never on a command, and on every
\* ill-formed line that begins when yyerrstatus is 0.
THEOREM Reports == Spec => ReportsOnce
<1> DEFINE P == line # <<>> /\ line' = <<>> =>
                  /\ Cardinality(Errors(out)) <= 1
                  /\ ~IllFormed(line) => Errors(out) = {}
                  /\ IllFormed(line) /\ began = 0 => Cardinality(Errors(out)) = 1
<1>1. FullInv /\ [Next]_vars => [P]_vars
  <2> SUFFICES ASSUME FullInv, Next, line # <<>>, line' = <<>>
               PROVE  /\ Cardinality(Errors(out)) <= 1
                      /\ ~IllFormed(line) => Errors(out) = {}
                      /\ IllFormed(line) /\ began = 0 => Cardinality(Errors(out)) = 1
    BY DEF vars
  <2>1. Cardinality({}) <= 1
    BY FS_EmptySet
  <2>2. CASE Answered
    BY <2>1, <2>2, CalledIs
  <2>3. CASE Spelt /\ Top = 7 /\ yychar = YYEMPTY
    BY <2>1, <2>3, EmptyIs
  <2>4. CASE Skipping /\ Top = 12
    BY <2>4, SkippedIs
  <2> QED BY <2>2, <2>3, <2>4, AnswerState
<1>2. Spec => [][P]_vars
  <2> HIDE DEF P
  <2> QED BY <1>1, LineUnderstood, PTL DEF Spec
<1> QED BY <1>2 DEF ReportsOnce
=============================================================================
