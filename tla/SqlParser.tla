------------------------------ MODULE SqlParser ------------------------------
(***************************************************************************)
(* The command line of Bruinbase: sqlparse(), the LALR(1) parser that      *)
(* bison made of SqlParser.y, with its tables, its driver, its error       *)
(* recovery and the actions of the grammar.  The user types tokens; the    *)
(* parser calls SqlEngine::load and SqlEngine::select.                     *)
(*                                                                         *)
(* The text of a name or a literal is on the heap (strdup, in the lexer);  *)
(* the actions of the rules free it.  Strings that error recovery pops or  *)
(* discards are lost to the program, and the model forgets them.           *)
(*                                                                         *)
(* line, out and began are history: what was typed since the last prompt,  *)
(* what the program did about it, and yyerrstatus at that prompt.          *)
(***************************************************************************)
EXTENDS Integers, Sequences, SequencesExt, FiniteSetsExt

CONSTANTS
  Names,        \* texts of an ID: "key", "value" and names of tables
  Literals,     \* texts of an INTEGER or a STRING
  Comparators,  \* the comparators that are typed
  MaxLine       \* bound of the model: tokens of a line before its LF

VARIABLES
  stack,        \* yyss and yyvs: a sequence of [state, val]
  yychar,       \* the lookahead, or YYEMPTY
  yylval,       \* the value of the last token that had one
  yyerrstatus,
  heap,         \* the strings that are allocated
  wild,         \* a string was used or freed that was not allocated
  result,       \* of sqlparse(): "running", "0" or "1"
  line, out, began

history == <<line, out, began>>
vars == <<stack, yychar, yylval, yyerrstatus, heap, wild, result, line, out, began>>

\* The numbers of the symbols in the tables (yytname).
T == [END |-> 0, ERROR |-> 1, UNDEFINED |-> 2, SELECT |-> 3, FROM |-> 4,
      WHERE |-> 5, LOAD |-> 6, WITH_ |-> 7, INDEX |-> 8, QUIT |-> 9,
      COUNT |-> 10, AND |-> 11, OR |-> 12, COMMA |-> 13, STAR |-> 14, LF |-> 15,
      INTEGER |-> 16, STRING |-> 17, ID |-> 18, EQUAL |-> 19, NEQUAL |-> 20,
      LESS |-> 21, LESSEQUAL |-> 22, GREATER |-> 23, GREATEREQUAL |-> 24,
      conditions |-> 31, condition |-> 32, attributes |-> 33, attribute |-> 34,
      value |-> 35, table |-> 36, comparator |-> 37]

\* What is typed for a comparator is one.
ASSUME SqlParserAssumption == Comparators \subseteq T.EQUAL .. T.GREATEREQUAL

YYNTOKENS == 25
YYEMPTY == -2
YYFINAL == 2
YYLAST == 33
YYPACT_NINF == -14
-----------------------------------------------------------------------------
(* The tables.  In C they are indexed from 0.                              *)

YYR1 == <<0, 25, 26, 26, 27, 27, 27, 27, 27, 28, 29, 29, 30, 30, 31, 31, 32, 33,
          33, 33, 34, 35, 35, 36, 37, 37, 37, 37, 37, 37>>

\* Mutant of YYR2: the empty rule and the rule commands: commands command
\* leave the command on the stack.
YYR2Grows == <<0, 2, 1, 0, 1, 1, 1, 2, 1, 1, 5, 7, 5, 7, 1, 3, 3, 1,
               1, 1, 1, 1, 1, 1, 1, 1, 1, 1, 1, 1>>

YYR2 == <<0, 2, 2, 0, 1, 1, 1, 2, 1, 1, 5, 7, 5, 7, 1, 3, 3, 1,
          1, 1, 1, 1, 1, 1, 1, 1, 1, 1, 1, 1>>

YYDEFACT == <<3, 0, 1, 0, 0, 0, 9, 8, 2, 6, 4, 5, 7, 19, 18, 20, 0, 17, 23, 0,
              0, 0, 0, 0, 0, 12, 0, 10, 0, 14, 0, 0, 0, 13, 24, 25, 26, 28, 27,
              29, 0, 11, 15, 21, 22, 16>>

YYDEFGOTO == <<-1, 1, 8, 9, 10, 11, 28, 29, 16, 30, 45, 19, 40>>

YYPACT == <<-14, 0, -14, -5, 3, 2, -14, -14, -14, -14, -14, -14, -14, -14, -14,
            -14, 10, -14, -14, 14, 2, 5, -3, 1, 11, -14, 22, -14, -4, -14, 4,
            16, 11, -14, -14, -14, -14, -14, -14, -14, -12, -14, -14, -14, -14,
            -14>>

YYPGOTO == <<-14, -14, -14, -14, -14, -14, -14, -13, -14, 28, -14, 13, -14>>

YYTABLE == <<2, 3, 24, 4, 43, 44, 5, 32, 26, 6, 12, 33, 25, 13, 20, 7, 27, 14,
             21, 42, 18, 15, 23, 34, 35, 36, 37, 38, 39, 15, 31, 41, 17, 22>>

YYCHECK == <<0, 1, 5, 3, 16, 17, 6, 11, 7, 9, 15, 15, 15, 10, 4, 15, 15, 14, 4,
             32, 18, 18, 17, 19, 20, 21, 22, 23, 24, 18, 8, 15, 4, 20>>

YYSTOS == <<0, 26, 0, 1, 3, 6, 9, 15, 27, 28, 29, 30, 15, 10, 14, 18, 33, 34, 18,
            36, 4, 4, 36, 17, 5, 15, 7, 15, 31, 32, 34, 8, 11, 15, 19, 20, 21,
            22, 23, 24, 37, 15, 32, 16, 17, 35>>

\* Where state s goes on symbol x: the compressed rows of yytable.
Listed(n, x) == n \in 0 .. YYLAST /\ YYCHECK[n + 1] = x
Shifts(s, x) == YYPACT[s + 1] # YYPACT_NINF /\ Listed(YYPACT[s + 1] + x, x)
ShiftTo(s, x) == YYTABLE[YYPACT[s + 1] + x + 1]

GoTo(s, nonterminal) ==
  LET i == nonterminal - YYNTOKENS + 1
      n == YYPGOTO[i] + s
  IN IF Listed(n, s) THEN YYTABLE[n + 1] ELSE YYDEFGOTO[i]
-----------------------------------------------------------------------------
(* Values: YYSTYPE is a union of an int, a string, a condition and a list   *)
(* of conditions.                                                          *)

Garbage == [garbage |-> TRUE]
StrVal(i, x) == [string |-> i, text |-> x]
IntVal(n) == [integer |-> n]
Junk == -1                  \* an int that was a pointer
Comp == [EQ |-> 0, NE |-> 1, LT |-> 2, GT |-> 3, LE |-> 4, GE |-> 5]

\* The strings that a symbol with value v stands for.
Owned(symbol, v) ==
  CASE symbol \in {T.INTEGER, T.STRING, T.ID, T.value, T.table} -> {v.string}
    [] symbol = T.condition -> {v.value.string}
    [] symbol = T.conditions -> {v.conds[i].value.string : i \in DOMAIN v.conds}
    [] OTHER -> {}

OwnedBySlot(slot) == Owned(YYSTOS[slot.state + 1], slot.val)
OwnedByLookahead == IF yychar = YYEMPTY THEN {} ELSE Owned(yychar, yylval)

Init ==
  /\ stack = <<[state |-> 0, val |-> Garbage]>>
  /\ yychar = YYEMPTY
  /\ yylval = Garbage
  /\ yyerrstatus = 0
  /\ heap = {} /\ wild = FALSE
  /\ result = "running"
  /\ line = <<>> /\ out = <<>> /\ began = 0
-----------------------------------------------------------------------------
(* The commands as a reader of SqlParser.y understands them: a command is   *)
(* on a line of its own, and this is what may follow its beginning l.       *)

CondTokens == <<{T.ID}, Comparators, {T.INTEGER, T.STRING}, {T.AND, T.LF}>>

Follow(l) ==
  LET n == Len(l) IN
  CASE n = 0 -> {T.SELECT, T.LOAD, T.QUIT, T.LF}
    [] n > 0 /\ l[1].type = T.SELECT ->
         (CASE n = 1 -> {T.ID, T.STAR, T.COUNT}
            [] n = 2 -> {T.FROM}
            [] n = 3 -> {T.ID}
            [] n = 4 -> {T.WHERE, T.LF}
            [] n > 4 -> CondTokens[((n - 5) % 4) + 1])
    [] n > 0 /\ l[1].type = T.LOAD ->
         <<{T.ID}, {T.FROM}, {T.STRING}, {T.WITH_, T.LF}, {T.INDEX}, {T.LF}>>[n]
    [] OTHER -> {}

BadLine == <<[type |-> T.UNDEFINED, text |-> ""]>>

Noted(l, t) ==
  IF t.type = T.END THEN l
  ELSE IF l # BadLine /\ t.type \in Follow(l) THEN Append(l, t)
  ELSE IF t.type = T.LF THEN Append(BadLine, t)
  ELSE BadLine

Ended(l) == l # <<>> /\ Last(l).type = T.LF
IllFormed(l) == l[1] = BadLine[1]

AttrNumber(t) ==
  CASE t.type = T.STAR -> 3
    [] t.type = T.COUNT -> 4
    [] OTHER -> IF t.text = "key" THEN 1 ELSE IF t.text = "value" THEN 2 ELSE Junk

CompOf == [n \in T.EQUAL .. T.GREATEREQUAL |->
             <<Comp.EQ, Comp.NE, Comp.LT, Comp.LE, Comp.GT, Comp.GE>>[n - T.EQUAL + 1]]

\* The calls of SqlEngine that the line l asks for.
Meaning(l) ==
  CASE l[1].type = T.LOAD ->
         <<[op |-> "load", table |-> l[2].text, file |-> l[4].text,
            index |-> Len(l) = 7]>>
    [] l[1].type = T.SELECT ->
         <<[op |-> "select", attr |-> AttrNumber(l[2]), table |-> l[4].text,
            conds |-> [i \in 1 .. (Len(l) - 5) \div 4 |->
                         [attr |-> AttrNumber(l[4 * i + 2]),
                          comp |-> CompOf[l[4 * i + 3].type],
                          value |-> l[4 * i + 4].text]]]>>
    [] OTHER -> <<>>
-----------------------------------------------------------------------------
(* The lexer.                                                              *)

Texts(type) == CASE type = T.ID -> Names
                 [] type \in {T.INTEGER, T.STRING} -> Literals
                 [] OTHER -> {""}

Typed == ((T.END .. T.ID) \ {T.ERROR, T.UNDEFINED}) \cup Comparators

Top == Last(stack).state
Running == result = "running"

\* Mutant of Wants: a lookahead is read in every state.
WantsAlways == Running /\ yychar = YYEMPTY

\* yybackup: a state with one thing to do only does it without a lookahead.
Wants == Running /\ YYPACT[Top + 1] # YYPACT_NINF /\ yychar = YYEMPTY

FreshString == Min({i \in 0 .. Cardinality(heap) : i \notin heap})

ReadToken(t) ==
  /\ Wants
  /\ Len(line) < MaxLine \/ t.type \in {T.END, T.LF}
  /\ yychar' = t.type
  /\ \/ /\ t.type \in {T.INTEGER, T.STRING, T.ID}
        /\ yylval' = StrVal(FreshString, t.text)
        /\ heap' = heap \cup {FreshString}
     \/ /\ t.type \notin {T.INTEGER, T.STRING, T.ID}
        /\ UNCHANGED <<yylval, heap>>
  /\ line' = Noted(line, t)
  /\ UNCHANGED <<stack, yyerrstatus, wild, result, out, began>>
-----------------------------------------------------------------------------
(* The driver.                                                             *)

Decided == Running /\ YYPACT[Top + 1] # YYPACT_NINF /\ yychar # YYEMPTY
ShiftsNow == Decided /\ Shifts(Top, yychar)
DefaultsNow ==
  \/ Running /\ YYPACT[Top + 1] = YYPACT_NINF
  \/ Decided /\ ~Shifts(Top, yychar)

Accept ==
  /\ ShiftsNow /\ ShiftTo(Top, yychar) = YYFINAL
  /\ result' = "0"
  /\ UNCHANGED <<stack, yychar, yylval, yyerrstatus, heap, wild, history>>

\* A token without a text of its own is pushed with the value of the last
\* that had one.
Shift ==
  /\ ShiftsNow /\ ShiftTo(Top, yychar) # YYFINAL
  /\ stack' = Append(stack, [state |-> ShiftTo(Top, yychar), val |-> yylval])
  /\ yyerrstatus' = IF yyerrstatus > 0 THEN yyerrstatus - 1 ELSE 0
  /\ yychar' = IF yychar = T.END THEN T.END ELSE YYEMPTY
  /\ UNCHANGED <<yylval, heap, wild, result, history>>

\* $k of rule n.
Dollar(n, k) == stack[Len(stack) - YYR2[n + 1] + k].val

\* Mutant of CondsValue: every condition starts a list of its own.
CondsValueLast(n) == [conds |-> <<Dollar(n, IF n = 14 THEN 1 ELSE 3)>>]

\* Rules 14 and 15: the vector of conditions is made, and grows.
CondsValue(n) ==
  [conds |-> IF n = 14 THEN <<Dollar(n, 1)>>
             ELSE Append(Dollar(n, 1).conds, Dollar(n, 3))]

\* Mutant of AttrValue: $$ is not set for a star.
AttrValueUnset(n) ==
  CASE n = 18 -> Dollar(n, 1)
    [] n = 19 -> IntVal(4)
    [] OTHER -> IntVal(IF Dollar(n, 1).text = "key" THEN 1
                  ELSE IF Dollar(n, 1).text = "value" THEN 2 ELSE Junk)

\* Rules 18 to 20: what is selected.  A name that is neither key nor value
\* leaves the pointer $1 in $$, which is read as an int.
AttrValue(n) ==
  CASE n = 18 -> IntVal(3)
    [] n = 19 -> IntVal(4)
    [] OTHER -> IntVal(IF Dollar(n, 1).text = "key" THEN 1
                  ELSE IF Dollar(n, 1).text = "value" THEN 2 ELSE Junk)

\* $$ of rule n: $1 unless the action assigns it.
RuleValue(n) ==
  CASE n \in {14, 15} -> CondsValue(n)
    [] n = 16 -> [attr |-> Dollar(n, 1).integer, comp |-> Dollar(n, 2).integer,
                  value |-> Dollar(n, 3)]
    [] n \in 18 .. 20 -> AttrValue(n)
    [] n \in 24 .. 29 -> IntVal(n - 24)
    [] YYR2[n + 1] = 0 -> Garbage
    [] OTHER -> Dollar(n, 1)

CondCall(c) == [attr |-> c.attr, comp |-> c.comp, value |-> c.value.text]
SelectCall(attr, table, conds) ==
  [op |-> "select", attr |-> attr.integer, table |-> table.text,
   conds |-> [i \in DOMAIN conds |-> CondCall(conds[i])]]
LoadCall(table, file, index) ==
  [op |-> "load", table |-> table.text, file |-> file.text, index |-> index]

\* What the action of rule n prints and calls.
RuleOutput(n) ==
  CASE n = 10 -> <<LoadCall(Dollar(n, 2), Dollar(n, 4), FALSE)>>
    [] n = 11 -> <<LoadCall(Dollar(n, 2), Dollar(n, 4), TRUE)>>
    [] n = 12 -> <<SelectCall(Dollar(n, 2), Dollar(n, 4), <<>>)>>
    [] n = 13 -> <<SelectCall(Dollar(n, 2), Dollar(n, 4), Dollar(n, 6).conds)>>
    [] n = 20 /\ Dollar(n, 1).text \notin {"key", "value"} ->
         <<[op |-> "wrong attribute name"]>>
    [] OTHER -> <<>>

\* Mutant of CondFrees: the values of the conditions are kept.
CondFreesNone(conds) == <<>>

\* free_conditions.
CondFrees(conds) == [i \in DOMAIN conds |-> conds[i].value.string]

\* The strings that the action of rule n uses and then frees.
RuleFrees(n) ==
  CASE n \in {10, 11} -> <<Dollar(n, 2).string, Dollar(n, 4).string>>
    [] n = 12 -> <<Dollar(n, 4).string>>
    [] n = 13 -> <<Dollar(n, 4).string>> \o CondFrees(Dollar(n, 6).conds)
    [] n = 20 -> <<Dollar(n, 1).string>>
    [] OTHER -> <<>>

\* Of a command that is complete.  What yylval points to has been freed by
\* then, or lost.
PromptRules == {4, 5, 7, 8}
QuitRule == 9

Reduce ==
  LET n == YYDEFACT[Top + 1]
      below == SubSeq(stack, 1, Len(stack) - YYR2[n + 1])
  IN
  /\ DefaultsNow /\ n # 0
  /\ heap' = heap \ ToSet(RuleFrees(n))
  /\ wild' = (wild \/ ~IsInjective(RuleFrees(n))
                   \/ ToSet(RuleFrees(n)) \ heap # {})
  /\ \/ /\ n = QuitRule
        /\ result' = "0"
        /\ UNCHANGED <<stack, yylval, history>>
     \/ /\ n # QuitRule
        /\ stack' = Append(below, [state |-> GoTo(Last(below).state, YYR1[n + 1]),
                                   val |-> RuleValue(n)])
        /\ \/ /\ n \in PromptRules
              /\ line' = <<>> /\ out' = <<>> /\ began' = yyerrstatus
              /\ yylval' = Garbage
           \/ /\ n \notin PromptRules
              /\ out' = out \o RuleOutput(n)
              /\ UNCHANGED <<line, began, yylval>>
        /\ UNCHANGED result
  /\ UNCHANGED <<yychar, yyerrstatus>>
-----------------------------------------------------------------------------
(* Error recovery.                                                         *)

ErrorNow == DefaultsNow /\ YYDEFACT[Top + 1] = 0

\* Mutant of Report: only errors that follow another are reported.
ReportLater ==
  out' = IF yyerrstatus # 0 THEN Append(out, [op |-> "syntax error"]) ELSE out

\* yyerrlab: reported unless an error has just been.
Report ==
  out' = IF yyerrstatus = 0 THEN Append(out, [op |-> "syntax error"]) ELSE out

\* yyerrlab1: pop the states that cannot shift the error token, and shift it.
Catchers == {k \in 1 .. Len(stack) : Shifts(stack[k].state, T.ERROR)}

Caught(k) ==
  /\ stack' = Append(SubSeq(stack, 1, k),
                [state |-> ShiftTo(stack[k].state, T.ERROR), val |-> yylval])
  /\ yyerrstatus' = 3

Popped(k) == UNION {OwnedBySlot(stack[i]) : i \in k + 1 .. Len(stack)}

\* An error in what was well-formed so far: the lookahead is tried again.
Recover ==
  /\ ErrorNow /\ yyerrstatus # 3 /\ Catchers # {}
  /\ Report
  /\ Caught(Max(Catchers))
  /\ heap' = heap \ Popped(Max(Catchers))
  /\ UNCHANGED <<yychar, yylval, wild, result, line, began>>

\* Mutant of Discard: the lookahead is kept.
DiscardNone ==
  /\ ErrorNow /\ yyerrstatus = 3 /\ yychar # T.END /\ Catchers # {}
  /\ Caught(Max(Catchers))
  /\ UNCHANGED <<yychar, heap, yylval, wild, result, history>>

\* The lookahead was tried again and did not fit.
Discard ==
  /\ ErrorNow /\ yyerrstatus = 3 /\ yychar # T.END /\ Catchers # {}
  /\ Caught(Max(Catchers))
  /\ yychar' = YYEMPTY
  /\ heap' = heap \ (Popped(Max(Catchers)) \cup OwnedByLookahead)
  /\ UNCHANGED <<yylval, wild, result, history>>

Abort ==
  /\ ErrorNow
  /\ (yyerrstatus = 3 /\ yychar = T.END) \/ Catchers = {}
  /\ Report
  /\ result' = "1"
  /\ UNCHANGED <<stack, yychar, yylval, yyerrstatus, heap, wild, line, began>>

Drive == Accept \/ Shift \/ Reduce \/ Recover \/ Discard \/ Abort

Next ==
  \/ \E type \in Typed : \E x \in Texts(type) : ReadToken([type |-> type, text |-> x])
  \/ Drive

\* The parser runs until it has to wait for the user.
Spec == Init /\ [][Next]_vars /\ WF_vars(Drive)
-----------------------------------------------------------------------------
(* Properties.                                                             *)

Strings == [string : Nat, text : Names \cup Literals]
Integer == [integer : -1 .. 5]
IsCondition(v) ==
  v.attr \in {1, 2, Junk} /\ v.comp \in 0 .. 5 /\ v.value \in Strings

\* Each value has the type that SqlParser.y gives its symbol (%token, %type).
HasType(symbol, v) ==
  CASE symbol \in {T.INTEGER, T.STRING, T.ID, T.value, T.table} -> v \in Strings
    [] symbol \in {T.attributes, T.attribute, T.comparator} -> v \in Integer
    [] symbol = T.condition -> IsCondition(v)
    [] symbol = T.conditions -> \A i \in DOMAIN v.conds : IsCondition(v.conds[i])
    [] OTHER -> TRUE

\* The union on the value stack is never read as a member it was not written
\* as, whatever was popped and pushed by error recovery.
TypeOK ==
  /\ \A i \in DOMAIN stack :
       /\ stack[i].state \in 0 .. 45
       /\ HasType(YYSTOS[stack[i].state + 1], stack[i].val)
  /\ yychar \in Typed \cup {YYEMPTY}
  /\ yychar # YYEMPTY => HasType(yychar, yylval)
  /\ yyerrstatus \in 0 .. 3
  /\ heap \subseteq Nat /\ wild \in BOOLEAN
  /\ result \in {"running", "0", "1"}

\* Every string that is allocated belongs to one symbol on the stack or to the
\* lookahead, and nothing is used or freed that is not allocated: each action
\* frees what it consumes, once, whatever else the parser throws away.
Ownership ==
  /\ ~wild
  /\ heap = (UNION {OwnedBySlot(stack[i]) : i \in DOMAIN stack}) \cup OwnedByLookahead
  /\ \A i, j \in DOMAIN stack :
       i # j => OwnedBySlot(stack[i]) \cap OwnedBySlot(stack[j]) = {}
  /\ \A i \in DOMAIN stack : OwnedBySlot(stack[i]) \cap OwnedByLookahead = {}

\* However many commands and conditions are typed, twelve places of the stack
\* do: it never has to grow beyond the 200 of YYINITDEPTH.
StackBounded == Len(stack) <= 12

\* A token is read only when every line before it has been answered: the
\* prompt appears before the user has to type again.
PromptFirst == [][yychar = YYEMPTY /\ yychar' # YYEMPTY => ~Ended(line)]_vars

\* Where in the output o the calls and the syntax errors are.
Calls(o) == {i \in DOMAIN o : o[i].op \in {"load", "select"}}
Errors(o) == {i \in DOMAIN o : o[i].op = "syntax error"}

\* The calls that the output o shows, and those that a line of the user asks for.
Called(o) == {o[i] : i \in Calls(o)}
Asked(l) == IF IllFormed(l) THEN <<>> ELSE Meaning(l)

\* When a line has been answered, SqlEngine has been called with what the line
\* says if it is a command and not at all if it is not, whatever was wrong on
\* the lines before it.
AnswersLine ==
  [][line # <<>> /\ line' = <<>> =>
       /\ Ended(line)
       /\ Cardinality(Calls(out)) = Len(Asked(line))
       /\ Called(out) = ToSet(Asked(line))]_vars

\* A line has at most one syntax error reported, one that is a command none,
\* and one that is not has exactly one unless the parser was still recovering
\* when it began.
ReportsOnce ==
  [][line # <<>> /\ line' = <<>> =>
       /\ Cardinality(Errors(out)) <= 1
       /\ ~IllFormed(line) => Errors(out) = {}
       /\ IllFormed(line) /\ began = 0 => Cardinality(Errors(out)) = 1]_vars

\* Reductions and error recovery do not go round in circles: whatever has been
\* typed, the parser asks for the next token or returns.  With PromptFirst, a
\* line that has been typed to its end is answered.
AsksAgain == []<>(Wants \/ result # "running")
=============================================================================
