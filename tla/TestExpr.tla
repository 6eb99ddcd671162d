------------------------------ MODULE TestExpr ------------------------------
(***************************************************************************)
(* The expressions of the CTP test package: a line is compiled, token by   *)
(* token, to code for a stack machine (CTP/thTestParse.c), and the code of *)
(* all lines of a block is executed at each event (CTP/thTestExecute.c).   *)
(* Expressions that are needed at once (array indices, the limits of a     *)
(* histogram, parameters) are compiled and executed by thEvalImed.         *)
(*                                                                         *)
(* A line is a sequence of tokens.  A number is a fraction, so that no     *)
(* conversion between integer and floating point loses its effect; a       *)
(* pointer is a variable and an offset; a word of the machine's stack      *)
(* knows what it is a part of, so that a pop of the wrong kind shows.      *)
(***************************************************************************)
EXTENDS Integers, Sequences, SequencesExt, FiniteSets

CONSTANTS
  Jobs,          \* set of sequences of [imm |-> BOOLEAN, line |-> tokens]
  VarType,       \* registered variables and their types
  VarInit,       \* and their values, as sequences
  ResultVar      \* the variable that thEvalImed assigns to

OPRINT == 0
OPRFLOAT == 1
OPRDOUBLE == 2

(***************************************************************************)
(* Tokens: <<"op", s>>, <<"num", type, value>>, <<"var", name>>,           *)
(* <<"fun", index>>                                                        *)
(***************************************************************************)

OpTok(s) == <<"op", s>>
IsOp(t) == t[1] = "op"
IsOpOf(t, S) == IsOp(t) /\ t[2] \in S

OPTABLE ==
  [s \in {"(", ")", "[", "]", "-", "+", "<", "<=", "<<", ">", ">=", ">>", "=", "==", "!",
          "!=", "&", "&&", "|", "||", "^", "^^", "*", "/", "//", "%", "~", ","} |->
     CASE s = "(" -> "OPLP" [] s \in {")", "]"} -> "OPRP" [] s = "[" -> "OPLINDEXB"
       [] s = "-" -> "OPSUB" [] s = "+" -> "OPADD" [] s = "<" -> "OPISLT"
       [] s = "<=" -> "OPISLE" [] s = "<<" -> "OPSHL" [] s = ">" -> "OPISGT"
       [] s = ">=" -> "OPISGE" [] s = ">>" -> "OPSHR" [] s = "=" -> "OPEQUAL"
       [] s = "==" -> "OPISEQUAL" [] s = "!" -> "OPNOT" [] s = "!=" -> "OPISNOTEQUAL"
       [] s = "&" -> "OPBITAND" [] s = "&&" -> "OPLOGAND" [] s = "|" -> "OPBITOR"
       [] s = "||" -> "OPLOGOR" [] s = "^" -> "OPBITXOR" [] s = "^^" -> "OPLOGXOR"
       [] s = "*" -> "OPTIMES" [] s = "/" -> "OPDIV" [] s = "//" -> "OPIDIV"
       [] s = "%" -> "OPMOD" [] s = "~" -> "OPCOMP" [] s = "," -> "OPCOMMA"]

Equality == {"OPISEQUAL", "OPISNOTEQUAL"}
Ordering == {"OPISLT", "OPISLE", "OPISGT", "OPISGE"}
Comparisons == Equality \cup Ordering
Logic == {"OPLOGOR", "OPLOGXOR", "OPLOGAND", "OPBITOR", "OPBITXOR", "OPBITAND", "OPSHL", "OPSHR"}
Unary == {"OPNEG", "OPNOT", "OPCOMP"}
IndexGroup == {"OPLINDEX", "OPLINDEXB", "OPLINDEXP", "OPLINDEXPB", "OPLFARG"}

\* Slip: comparisons bind tighter than sums.
SwappedPrec(op) ==
  CASE op = "OPLP" -> 1 [] op = "OPRP" -> 9 [] op \in IndexGroup -> 26
    [] op \in {"OPEOL", "OPCOMMA"} -> 46 [] op = "OPEQUAL" -> 64
    [] op = "OPLOGOR" -> 131 [] op = "OPLOGXOR" -> 132 [] op = "OPLOGAND" -> 133
    [] op = "OPBITOR" -> 134 [] op = "OPBITXOR" -> 135 [] op = "OPBITAND" -> 136
    [] op \in {"OPSHL", "OPSHR"} -> 187 [] op \in {"OPADD", "OPSUB"} -> 192
    [] op \in Equality -> 200 [] op \in Ordering -> 201
    [] op \in {"OPTIMES", "OPDIV", "OPIDIV", "OPMOD"} -> 208 [] op \in Unary -> 224

\* op & OPPRECMASK.  OPLFARG and OPCOMMA are higher by one than the others of
\* their kind, with nothing in between.
Prec(op) ==
  CASE op = "OPLP" -> 1 [] op = "OPRP" -> 9 [] op \in IndexGroup -> 26
    [] op \in {"OPEOL", "OPCOMMA"} -> 46 [] op = "OPEQUAL" -> 64
    [] op = "OPLOGOR" -> 131 [] op = "OPLOGXOR" -> 132 [] op = "OPLOGAND" -> 133
    [] op = "OPBITOR" -> 134 [] op = "OPBITXOR" -> 135 [] op = "OPBITAND" -> 136
    [] op \in Equality -> 169 [] op \in Ordering -> 170
    [] op \in {"OPSHL", "OPSHR"} -> 187 [] op \in {"OPADD", "OPSUB"} -> 192
    [] op \in {"OPTIMES", "OPDIV", "OPIDIV", "OPMOD"} -> 208 [] op \in Unary -> 224

MaxPrec == 256

\* Slip: the quotient of two integers is taken for an integer.
typetableIntDiv(op, l, r) ==
  CASE op \in IndexGroup \cup {"OPEQUAL"} -> l
    [] op \in {"OPADD", "OPSUB", "OPTIMES", "OPMOD", "OPDIV"} ->
         IF l = OPRINT /\ r = OPRINT THEN OPRINT ELSE OPRDOUBLE
    [] op = "OPNEG" -> r
    [] OTHER -> OPRINT

\* The type of a binary or unary operator's result
typetable(op, l, r) ==
  CASE op \in IndexGroup \cup {"OPEQUAL"} -> l
    [] op \in {"OPADD", "OPSUB", "OPTIMES", "OPMOD"} ->
         IF l = OPRINT /\ r = OPRINT THEN OPRINT ELSE OPRDOUBLE
    [] op = "OPDIV" -> OPRDOUBLE
    [] op = "OPNEG" -> r
    [] OTHER -> OPRINT

\* Of the functions there is abs, whose result has the type of its argument.
thGetResultType(op, l, r) == IF op = "OPLFARG" THEN r ELSE typetable(op, l, r)

\* Types, tokens and lines as they are read
Types == {OPRINT, OPRFLOAT, OPRDOUBLE}
IsToken(t) == \/ IsOp(t) /\ t[2] \in DOMAIN OPTABLE
              \/ t[1] = "num" /\ t[2] \in Types
              \/ t[1] \in {"var", "fun"}

ASSUME TestAssumption ==
  /\ \A v \in DOMAIN VarType : VarType[v] \in Types
  /\ \A j \in Jobs :
       /\ Len(j) \in Nat
       /\ \A k \in 1 .. Len(j) :
            Len(j[k].line) \in Nat /\ \A i \in 1 .. Len(j[k].line) : IsToken(j[k].line[i])

(***************************************************************************)
(* Numbers                                                                 *)
(***************************************************************************)

Gcd[m \in Nat, n \in Nat] == IF n = 0 THEN m ELSE Gcd[n, m % n]
AbsVal(n) == IF n < 0 THEN -n ELSE n
Frac(n, d) ==
  LET s == IF d < 0 THEN -1 ELSE 1
      g == Gcd[AbsVal(n), AbsVal(d)]
  IN <<(s * n) \div g, (s * d) \div g>>
Whole(n) == <<n, 1>>
Truth(p) == Whole(IF p THEN 1 ELSE 0)
Less(x, y) == x[1] * y[2] < y[1] * x[2]

\* C's division of integers, towards zero
Truncated(n, d) == (IF (n < 0) = (d < 0) THEN 1 ELSE -1) * (AbsVal(n) \div AbsVal(d))

floatToLong(x) ==
  Whole(IF x[1] > 0 THEN (2 * x[1] + x[2]) \div (2 * x[2])
                    ELSE -((2 * (-x[1]) + x[2]) \div (2 * x[2])))

AsInt(type, x) == IF type = OPRINT THEN x ELSE floatToLong(x)

\* Bits of an integer: 8 of the 32, enough for the values that occur.
Bits == 8
Bit(n, i) == (n \div 2^i) % 2 = 1
FromBits(S) == LET u == FoldSet(+, 0, {2^i : i \in S})
               IN Whole(IF u < 2^(Bits - 1) THEN u ELSE u - 2^Bits)
OnBits(op, m, n) ==
  FromBits({i \in 0 .. Bits - 1 :
              CASE op = "OPBITAND" -> Bit(m % 2^Bits, i) /\ Bit(n % 2^Bits, i)
                [] op = "OPBITOR" -> Bit(m % 2^Bits, i) \/ Bit(n % 2^Bits, i)
                [] op = "OPBITXOR" -> Bit(m % 2^Bits, i) # Bit(n % 2^Bits, i)})

\* The operators on integers, whatever the operands were
OnInts(op, x, y) ==
  LET m == x[1]
      n == y[1]
  IN CASE op = "OPLOGOR" -> Truth(m # 0 \/ n # 0)
       [] op = "OPLOGXOR" -> Truth((m # 0) # (n # 0))
       [] op = "OPLOGAND" -> Truth(m # 0 /\ n # 0)
       [] op = "OPSHL" -> Whole(m * 2^n)
       [] op = "OPSHR" -> Whole(m \div 2^n)
       [] OTHER -> OnBits(op, m, n)

\* Comparisons and arithmetic.  A division by zero gives zero.
OnNumbers(op, l, r, x, y) ==
  LET bothInt == l = OPRINT /\ r = OPRINT
      quotient == IF y[1] = 0 THEN Whole(0) ELSE Frac(x[1] * y[2], x[2] * y[1])
  IN CASE op = "OPISEQUAL" -> Truth(x = y)
       [] op = "OPISNOTEQUAL" -> Truth(x # y)
       [] op = "OPISLT" -> Truth(Less(x, y))
       [] op = "OPISGT" -> Truth(Less(y, x))
       [] op = "OPISLE" -> Truth(~Less(y, x))
       [] op = "OPISGE" -> Truth(~Less(x, y))
       [] op = "OPADD" -> Frac(x[1] * y[2] + y[1] * x[2], x[2] * y[2])
       [] op = "OPSUB" -> Frac(x[1] * y[2] - y[1] * x[2], x[2] * y[2])
       [] op = "OPTIMES" -> Frac(x[1] * y[1], x[2] * y[2])
       [] op = "OPDIV" -> quotient
       [] op = "OPIDIV" -> IF bothInt /\ y[1] # 0 THEN Whole(Truncated(x[1], y[1]))
                                                 ELSE floatToLong(quotient)
       [] op = "OPMOD" ->
            LET q == Truncated(quotient[1], quotient[2])
            IN Frac(x[1] * y[2] - q * y[1] * x[2], x[2] * y[2])

Binary(op, l, r, x, y) ==
  IF op \in Logic THEN OnInts(op, AsInt(l, x), AsInt(r, y)) ELSE OnNumbers(op, l, r, x, y)

OnOne(op, r, x) ==
  CASE op = "OPNEG" -> <<-x[1], x[2]>>
    [] op = "OPNOT" -> Truth(AsInt(r, x)[1] = 0)
    [] op = "OPCOMP" -> Whole(-AsInt(r, x)[1] - 1)
    [] op = "OPLFARG" -> <<AbsVal(x[1]), x[2]>>

(***************************************************************************)
(* State                                                                   *)
(***************************************************************************)

VARIABLES
  job,          \* the items of this run: [imm, line, ...]
  ln,           \* the current item
  phase,        \* "compile", "run" or "done"
  pos,          \* next token of the line (linep)
  lasttoktype,  \* static of thGetTok: 0 operator, 1 operand, 2 ")", 3 function
  lastop,       \* static of thGetTok: the last operator, "" after an operand
  opstack,      \* pending operators
  typstack,     \* [base, items]: types of the operands; base < 0 after a pop too many
  status,       \* of the line so far
  code,         \* instructions of the line
  booked,       \* instructions of the accepted lines of the block
  vlist,        \* result variables of the block, whose scalers are counted
  accepted,     \* history: the item's return code, for every item so far
  running,      \* instructions being executed
  pc,
  stack,        \* <<kind, value>>
  mem,          \* variable |-> sequence of values
  answers,      \* history: values thEvalImed gave for its items
  undefined     \* an instruction met operands that are not those it was compiled for

lineVars == <<pos, lasttoktype, lastop, opstack, typstack, status, code>>
blockVars == <<booked, vlist, accepted>>
machineVars == <<running, pc, stack, answers, undefined>>
vars == <<job, ln, phase, lineVars, blockVars, machineVars, mem>>

PTR == 3  \* the kind of a pointer on the stack, beside the three types
TypeOf(v) == IF v \in DOMAIN VarType THEN VarType[v] ELSE OPRINT
Instr(op, lt, rt, res, arg) == [op |-> op, lt |-> lt, rt |-> rt, res |-> res, arg |-> arg]
EmptyTypes == [base |-> 0, items |-> <<>>]

Init ==
  /\ job \in Jobs
  /\ ln = 1 /\ phase = "compile"
  /\ pos = 1 /\ lasttoktype = 0 /\ lastop = ""
  /\ opstack = <<>> /\ typstack = EmptyTypes /\ status = "S_SUCCESS" /\ code = <<>>
  /\ booked = <<>> /\ vlist = {} /\ accepted = <<>>
  /\ running = <<>> /\ pc = 1 /\ stack = <<>> /\ answers = <<>> /\ undefined = FALSE
  /\ mem = VarInit

Line == job[ln].line
Immediate == job[ln].imm
Compiling == phase = "compile" /\ ln <= Len(job)
Is(i, s) == i <= Len(Line) /\ Line[i] = OpTok(s)

(***************************************************************************)
(* Looking ahead in the line                                               *)
(***************************************************************************)

\* Brackets of one kind that open in Line[i .. j] less those that close
Level(i, j, open, close) ==
  Cardinality({k \in i .. j : Is(k, open)}) - Cardinality({k \in i .. j : Is(k, close)})
Balanced(i, j) == Level(i, j, "(", ")") = 0 /\ Level(i, j, "[", "]") = 0

\* The "(" or "[" before token i is closed by a token that "=" follows.
IndexesResult(i, close) ==
  \E j \in i .. Len(Line) :
    /\ Is(j, close) /\ Balanced(i, j - 1)
    /\ \A k \in i .. j - 1 : ~(Is(k, close) /\ Balanced(i, k - 1))
    /\ Is(j + 1, "=")

\* First token after the operand that ends before i, and after its index
AfterOperand(i) ==
  IF ~(Is(i, "(") \/ Is(i, "[")) THEN i
  ELSE LET ends == {j \in i .. Len(Line) : Balanced(i, j)}
       IN IF ends = {} THEN Len(Line) + 1
          ELSE 1 + CHOOSE j \in ends : \A k \in ends : j <= k

\* Slip: the "," is missing from the operators a result may follow.
NoCommaResult(i) ==
  /\ lastop \in {"", "OPLOGOR", "OPLOGAND", "OPLOGXOR", "OPEQUAL", "OPLP"}
  /\ Is(AfterOperand(i), "=")

\* thGetOperandType gives otRESULT, for an operand that ends before i.
IsResult(i) ==
  /\ lastop \in {"", "OPLOGOR", "OPLOGAND", "OPLOGXOR", "OPEQUAL", "OPCOMMA", "OPLP"}
  /\ Is(AfterOperand(i), "=")

\* The operator thGetTok finds at pos
GetOperator ==
  LET s == Line[pos][2]
      op == CASE s = "-" /\ lasttoktype = 0 -> "OPNEG"
              [] s = "(" /\ lasttoktype = 1 -> "OPLINDEX"
              [] s = "(" /\ lasttoktype = 3 -> "OPLFARG"
              [] OTHER -> OPTABLE[s]
  IN CASE op = "OPLINDEX" /\ IndexesResult(pos + 1, ")") -> "OPLINDEXP"
       [] op = "OPLINDEXB" /\ IndexesResult(pos + 1, "]") -> "OPLINDEXPB"
       [] OTHER -> op

(***************************************************************************)
(* Compiling                                                               *)
(***************************************************************************)

PushType(ts, type) == [ts EXCEPT !.items = Append(@, type)]
PopType(ts) == IF ts.items = <<>> THEN [ts EXCEPT !.base = @ - 1]
                                  ELSE [ts EXCEPT !.items = Front(@)]
TopType(ts) == IF ts.items = <<>> THEN OPRINT ELSE Last(ts.items)
Depth(ts) == ts.base + Len(ts.items)

TopOp(ops) == IF ops = <<>> THEN "" ELSE Last(ops)

UnaryPlus == Is(pos, "+") /\ lasttoktype = 0
OperandPos == IF UnaryPlus THEN pos + 1 ELSE pos
IsOperand(i) == i <= Len(Line) /\ ~IsOp(Line[i])
AtOperand == pos <= Len(Line) /\ (UnaryPlus \/ ~IsOp(Line[pos]))

Known(v) == v \in DOMAIN mem
\* The name at i is registered, or is when the line assigns to it.
Resolved(i) == Known(Line[i][2]) \/ Is(i + 1, "=")

\* An assignment to a name that is not registered creates an integer.
Created(v) == [w \in DOMAIN mem \cup {v} |-> IF w = v THEN <<Whole(0)>> ELSE mem[w]]

\* A result is listed for its block, if there is one, and its scaler starts at 0.
Listed(v) == IF Immediate THEN vlist ELSE vlist \cup {v}

PushOperand ==
  /\ Compiling /\ AtOperand /\ IsOperand(OperandPos)
  /\ LET i == OperandPos
         tok == Line[i]
         isPointer == \E s \in {"(", "[", "="} : Is(i + 1, s)
         push == CASE tok[1] = "num" -> Instr("PUSH", 0, 0, tok[2], tok[3])
                   [] tok[1] = "fun" -> Instr("PUSHFUNCTION", 0, 0, OPRINT, tok[2])
                   [] tok[1] = "var" -> Instr(IF isPointer THEN "PUSHP" ELSE "PUSHV",
                                              0, 0, TypeOf(tok[2]), tok[2])
     IN /\ tok[1] = "var" => Resolved(i)
        /\ pos' = i + 1
        /\ lasttoktype' = IF tok[1] = "fun" THEN 3 ELSE 1
        /\ code' = Append(code, push)
        /\ typstack' = PushType(typstack, push.res)
        /\ vlist' = IF tok[1] = "var" /\ IsResult(i + 1) THEN Listed(tok[2]) ELSE vlist
        /\ mem' = IF tok[1] = "var" /\ ~Known(tok[2]) THEN Created(tok[2]) ELSE mem
  /\ lastop' = ""
  /\ UNCHANGED <<job, ln, phase, opstack, status, booked, accepted, machineVars>>

\* A name that is not registered stands for 0, and its line is refused; where there is
\* nothing at all after a "+", no characters are the number 0 to thIDToken.
PushUnregistered ==
  /\ Compiling /\ AtOperand
  /\ IsOperand(OperandPos) => Line[OperandPos][1] = "var" /\ ~Resolved(OperandPos)
  /\ pos' = IF IsOperand(OperandPos) THEN OperandPos + 1 ELSE OperandPos
  /\ lasttoktype' = 1 /\ lastop' = ""
  /\ code' = Append(code, Instr("PUSH", 0, 0, OPRINT, Whole(0)))
  /\ typstack' = PushType(typstack, OPRINT)
  /\ status' = IF IsOperand(OperandPos) THEN "S_TH_UNREG" ELSE status
  /\ UNCHANGED <<job, ln, phase, opstack, blockVars, machineVars, mem>>

\* One pass of the loop that generates code for the pending operators of at least
\* the precedence cmp.  An index or an argument list that is reached ends it, and
\* a ")" is its end.
Generated(s) ==
  IF s.ops = <<>> \/ Prec(Last(s.ops)) < s.cmp THEN s
  ELSE LET op == Last(s.ops)
           isIndex == op \in IndexGroup
           rt == TopType(s.typs)
           rest == PopType(s.typs)
           lt == IF op \in Unary THEN OPRINT ELSE TopType(rest)
           left == IF op \in Unary THEN rest ELSE PopType(rest)
           res == thGetResultType(op, lt, rt)
       IN [ops |-> Front(s.ops),
           typs |-> PushType(left, res),
           code |-> Append(s.code, Instr(op, lt, rt, res, 0)),
           token |-> IF isIndex /\ s.token = "OPRP"
                       THEN IF op = "OPLFARG" THEN "OPRFARG" ELSE "OPRINDEX"
                       ELSE s.token,
           cmp |-> IF isIndex THEN MaxPrec ELSE s.cmp]

\* The operators that are pending, and the code, when the loop ends
Reduced(token) ==
  LET loop[n \in 0 .. Len(opstack)] ==
        IF n = 0 THEN [ops |-> opstack, typs |-> typstack, code |-> code, token |-> token,
                       cmp |-> IF token \in IndexGroup THEN MaxPrec ELSE Prec(token)]
        ELSE Generated(loop[n - 1])
  IN loop[Len(opstack)]

AtOperator == pos <= Len(Line) /\ IsOp(Line[pos]) /\ ~UnaryPlus

Operator ==
  /\ Compiling /\ AtOperator
  /\ LET token == GetOperator
         r == Reduced(token)
         removesParen == r.token = "OPRP"
     IN /\ removesParen => TopOp(r.ops) = "OPLP"
        /\ lasttoktype' = IF token = "OPRP" THEN 2 ELSE 0
        /\ lastop' = token
        /\ IF token = "OPLP"
             THEN opstack' = Append(opstack, token) /\ UNCHANGED <<typstack, code>>
             ELSE IF r.token = "OPCOMMA"
             THEN /\ opstack' = r.ops /\ typstack' = PopType(r.typs)
                  /\ code' = Append(r.code, Instr("OPCOMMA", 0, TopType(r.typs), 0, 0))
             ELSE /\ opstack' = IF r.token \in {"OPRINDEX", "OPRFARG"} THEN r.ops
                                ELSE IF removesParen THEN Front(r.ops) ELSE Append(r.ops, token)
                  /\ typstack' = r.typs /\ code' = r.code
  /\ pos' = pos + 1
  /\ UNCHANGED <<job, ln, phase, status, blockVars, machineVars, mem>>

\* What follows an item: the next one, or the block is executed.
NextItem ==
  /\ ln' = ln + 1
  /\ pos' = 1 /\ opstack' = <<>> /\ typstack' = EmptyTypes /\ status' = "S_SUCCESS" /\ code' = <<>>
  /\ phase' = IF ln < Len(job) THEN "compile" ELSE "run"
  /\ running' = IF ln < Len(job) THEN <<>> ELSE booked'
  /\ pc' = 1 /\ stack' = <<>>

\* "Right paren not matched by left": thBookaTest returns in the middle of the
\* line, and thGetTok never sees its end.
ErrorReturn == lasttoktype' = 2 /\ lastop' = "OPRP"

\* The value thEvalImed gives for an item it cannot evaluate
FailedAnswer == IF Immediate THEN Append(answers, Whole(0)) ELSE answers

UnmatchedParen ==
  /\ Compiling /\ AtOperator /\ GetOperator = "OPRP"
  /\ LET r == Reduced("OPRP")
     IN r.token = "OPRP" /\ TopOp(r.ops) # "OPLP"
  /\ ErrorReturn
  /\ accepted' = Append(accepted, "S_FAILURE")
  /\ answers' = FailedAnswer
  /\ UNCHANGED <<job, booked, vlist, undefined, mem>>
  /\ NextItem

\* The end of the line: thEvalImed evaluates it if it was accepted; the code of
\* a line of a block is kept, with what stood for unregistered names.
Accepts(r) == Depth(PopType(r.typs)) = 0

\* thEvalImed assigns the value of the last instruction to a variable of its own.
Evaluation(c) ==
  <<Instr("PUSHP", 0, 0, OPRDOUBLE, ResultVar)>> \o c
  \o <<Instr("OPEQUAL", OPRDOUBLE, Last(c).res, OPRDOUBLE, 0), Instr("OPEOL", 0, OPRDOUBLE, 0, 0)>>

EndLine ==
  /\ Compiling /\ pos > Len(Line)
  /\ lasttoktype' = 0 /\ lastop' = ""
  /\ LET r == Reduced("OPEOL")
         full == Append(r.code, Instr("OPEOL", 0, TopType(r.typs), 0, 0))
         ok == Accepts(r) /\ r.ops = <<>>
         ret == IF ok THEN status ELSE "S_FAILURE"
     IN /\ accepted' = Append(accepted, ret)
        /\ IF Immediate /\ ret = "S_SUCCESS"
             THEN /\ phase' = "run" /\ running' = Evaluation(r.code) /\ pc' = 1 /\ stack' = <<>>
                  /\ UNCHANGED <<ln, pos, opstack, typstack, status, code, booked, answers>>
             ELSE /\ booked' = IF ok /\ ~Immediate THEN booked \o full ELSE booked
                  /\ answers' = FailedAnswer
                  /\ NextItem
  /\ UNCHANGED <<job, vlist, undefined, mem>>

(***************************************************************************)
(* Executing                                                               *)
(***************************************************************************)

Running == phase = "run" /\ pc <= Len(running) /\ ~undefined
Now == running[pc]

\* The kinds the instruction i takes from the stack, top first, as its code says
Needs(i) ==
  IF i.op \in {"PUSH", "PUSHFUNCTION", "PUSHP", "PUSHV"} THEN <<>>
  ELSE IF i.op \in {"OPEOL", "OPCOMMA"} \cup Unary THEN <<i.rt>>
  ELSE IF i.op = "OPLFARG" THEN <<i.rt, OPRINT>>
  ELSE IF i.op \in IndexGroup \cup {"OPEQUAL"} THEN <<i.rt, PTR>>
  ELSE <<i.rt, i.lt>>
Operands == Needs(Now)

Nth(i) == stack[Len(stack) - i + 1]
Fit == /\ Len(stack) >= Len(Operands)
       /\ \A i \in 1 .. Len(Operands) : Nth(i)[1] = Operands[i]
Top == Nth(1)[2]
Second == Nth(2)[2]

\* One instruction replaces its operands by what it pushes.
Does(op) == Running /\ Now.op \in op /\ Fit
Becomes(pushed) ==
  /\ stack' = SubSeq(stack, 1, Len(stack) - Len(Operands)) \o pushed
  /\ pc' = pc + 1
  /\ UNCHANGED <<job, ln, phase, lineVars, blockVars, running, answers, undefined>>

ExecPush ==
  /\ Does({"PUSH", "PUSHFUNCTION", "PUSHP", "PUSHV"})
  /\ Becomes(CASE Now.op = "PUSH" -> <<<<Now.res, Now.arg>>>>
               [] Now.op = "PUSHFUNCTION" -> <<<<OPRINT, Now.arg>>>>
               [] Now.op = "PUSHP" -> <<<<PTR, <<Now.arg, 0>>>>>>
               [] Now.op = "PUSHV" -> <<<<Now.res, mem[Now.arg][1]>>>>)
  /\ UNCHANGED mem

ExecDiscard ==
  /\ Does({"OPEOL", "OPCOMMA"})
  /\ Becomes(<<>>)
  /\ UNCHANGED mem

ExecFunction ==
  /\ Does({"OPLFARG"})
  /\ Becomes(<<<<Now.rt, OnOne("OPLFARG", Now.rt, Top)>>>>)
  /\ UNCHANGED mem

\* "(" counts from one, "[" from zero.
IndexBase(op) == IF op \in {"OPLINDEX", "OPLINDEXP"} THEN 1 ELSE 0

Element == Second[2] + AsInt(Now.rt, Top)[1] - IndexBase(Now.op)
Inside(v, i) == i + 1 \in 1 .. Len(mem[v])

ExecIndex ==
  /\ Does(IndexGroup \ {"OPLFARG"})
  /\ Inside(Second[1], Element)
  /\ Becomes(IF Now.op \in {"OPLINDEX", "OPLINDEXB"}
               THEN <<<<Now.lt, mem[Second[1]][Element + 1]>>>>
               ELSE <<<<PTR, <<Second[1], Element>>>>>>)
  /\ UNCHANGED mem

Converted(lt, rt, x) == IF lt = OPRINT THEN AsInt(rt, x) ELSE x

ExecEqual ==
  /\ Does({"OPEQUAL"})
  /\ Inside(Second[1], Second[2])
  /\ LET v == Converted(Now.lt, Now.rt, Top)
     IN /\ mem' = [mem EXCEPT ![Second[1]][Second[2] + 1] = v]
        /\ Becomes(<<<<Now.lt, v>>>>)

\* The type a binary operator leaves, whatever it was compiled for
LeftType(op, lt, rt) ==
  IF \/ op = "OPDIV"
     \/ op \in {"OPADD", "OPSUB", "OPTIMES", "OPMOD"} /\ ~(lt = OPRINT /\ rt = OPRINT)
    THEN OPRDOUBLE ELSE OPRINT

ExecBinary ==
  /\ Does(Logic \cup Comparisons \cup {"OPADD", "OPSUB", "OPTIMES", "OPDIV", "OPIDIV", "OPMOD"})
  /\ Becomes(<<<<LeftType(Now.op, Now.lt, Now.rt),
                 Binary(Now.op, Now.lt, Now.rt, Second, Top)>>>>)
  /\ UNCHANGED mem

ExecUnary ==
  /\ Does(Unary)
  /\ Becomes(<<<<IF Now.op = "OPNEG" THEN Now.rt ELSE OPRINT, OnOne(Now.op, Now.rt, Top)>>>>)
  /\ UNCHANGED mem

\* The stack does not hold what the instruction was compiled for, or an index is
\* outside of its array: what happens then is not defined.
ExecUndefined ==
  /\ Running
  /\ Fit => CASE Now.op \in IndexGroup \ {"OPLFARG"} -> ~Inside(Second[1], Element)
              [] Now.op = "OPEQUAL" -> ~Inside(Second[1], Second[2])
              [] OTHER -> FALSE
  /\ undefined' = TRUE
  /\ phase' = "done"
  /\ UNCHANGED <<job, ln, lineVars, blockVars, running, pc, stack, answers, mem>>

\* The code has been executed: of an expression, or of the block.
ReturnImmediate ==
  /\ phase = "run" /\ pc > Len(running) /\ ln <= Len(job)
  /\ answers' = Append(answers, IF stack = <<>> THEN mem[ResultVar][1] ELSE Whole(0))
  /\ UNCHANGED <<job, lasttoktype, lastop, blockVars, undefined, mem>>
  /\ NextItem

ReturnBlock ==
  /\ phase = "run" /\ pc > Len(running) /\ ln > Len(job)
  /\ phase' = "done"
  /\ UNCHANGED <<job, ln, lineVars, blockVars, machineVars, mem>>

Done == phase = "done" /\ UNCHANGED vars

Next ==
  \/ PushOperand \/ PushUnregistered \/ Operator \/ UnmatchedParen \/ EndLine
  \/ ExecPush \/ ExecDiscard \/ ExecFunction \/ ExecIndex \/ ExecEqual
  \/ ExecBinary \/ ExecUnary \/ ExecUndefined \/ ReturnImmediate \/ ReturnBlock
  \/ Done

Spec == Init /\ [][Next]_vars

(***************************************************************************)
(* Properties                                                              *)
(***************************************************************************)

\* Token k of the line l may follow the one before it: after an operand, or a
\* bracket that closes, an operator that takes it as its left one (of variables
\* only, an index; of one where an expression begins, "=") or the end of what
\* it is in; everywhere else an operand, a "(", or an operator of one operand, but
\* not two of these in a row.
EndsOperand(t) == ~IsOp(t) \/ IsOpOf(t, {")", "]"})
TakesOne(l, k) == IsOpOf(l[k], {"-", "!", "~"}) /\ ~EndsOperand(l[k - 1])
Follows(l, k) ==
  LET before == l[k - 1]
  IN IF EndsOperand(before)
       THEN \/ l[k] = OpTok("(") /\ before[1] \in {"var", "fun"}
            \/ l[k] = OpTok("[") /\ before[1] = "var"
            \/ /\ l[k] = OpTok("=") /\ before[1] = "var"
               /\ k = 2 \/ IsOpOf(l[k - 2], {"(", "[", ","})
            \/ /\ IsOp(l[k]) /\ ~IsOpOf(l[k], {"(", "[", "=", "!", "~"})
               /\ before[1] # "fun"
       ELSE ~IsOp(l[k]) \/ l[k] = OpTok("(") \/ (TakesOne(l, k) /\ ~TakesOne(l, k - 1))

\* An assignment in which each token may follow the one before it, whether or not
\* its brackets match
Assignment(l) ==
  /\ Len(l) >= 3 /\ l[1][1] = "var" /\ l[2] = OpTok("=") /\ EndsOperand(l[Len(l)])
  /\ \A k \in 2 .. Len(l) : Follows(l, k)

\* Of everything that can be written as assignments with operands and operators in
\* turn, in lists, parentheses, indices and arguments too, thBookaTest accepts
\* (names that are not registered apart) only lines whose code finds on the stack
\* what it was compiled for and leaves nothing there when it ends: the types that
\* the parser tracks on typstack are those that thExecuteCode meets
\* (thTestParse.c:781-886, thTestExecute.c:220-724).
CodeFits ==
  (/\ \A k \in 1 .. Len(job) : Assignment(job[k].line) /\ ~job[k].imm
   /\ \A k \in 1 .. Len(accepted) : accepted[k] # "S_TH_UNREG") =>
    /\ Running => Fit
    /\ phase = "done" /\ ~undefined => stack = <<>>

\* Names with which the index of a variable, or an argument, begins.  An assignment to
\* one of them there is not taken for one to a result (thTestParse.c:559-563).
BeginIndex(l) ==
  {l[k][2] : k \in {j \in 3 .. Len(l) : /\ l[j][1] = "var" /\ ~IsOp(l[j - 2])
                                       /\ IsOpOf(l[j - 1], {"(", "["})}}

\* The results that the code of a block assigns are in the list of the block, from
\* which thClearTestFlagsV and thIncTestScalersV work: a result that is not keeps its
\* flag from the event before (thTestParse.c:476-513).  Excepted are names that an
\* index or an argument begins with.
AssignedAreListed ==
  (/\ phase = "done" /\ ~undefined
   /\ \A k \in 1 .. Len(job) : accepted[k] = "S_SUCCESS" /\ ~job[k].imm) =>
    \A v \in DOMAIN mem :
      (v \in DOMAIN VarInit => mem[v] # VarInit[v]) =>
        v \in vlist \cup UNION {BeginIndex(job[k].line) : k \in 1 .. Len(job)}

=============================================================================
