------------------------------ MODULE MCValues ------------------------------
(* Two variables; a record type V whose keys hash natively, W with its own   *)
(* `hash`, and a `ref` type R. Hashes keep the parity of an integer and      *)
(* nothing else, so that unequal keys meet in a bucket. Each program is a    *)
(* handful of statements, run in any order.                                  *)
EXTENDS Values

One == Lit(IntValue(1))
AlsoOne == Lit(Float(FALSE, 3, 0))
Two == Lit(IntValue(2))
Three == Lit(IntValue(3))
A == Name("a")
B == Name("b")

\* Records in variables, in records and in lists, changed where they lie.
Copies == {Bind("a", B), Bind("b", A), Bind("b", One), Record("a", "V", B), Record("b", "V", One),
           ListLit("a", <<B>>), Bind("b", ItemOf("a")), Bind("b", FieldOf("a")),
           SetField(A, AlsoOne), SetField(A, B), SetField(FieldOf("a"), AlsoOne), SetField(ItemOf("a"), AlsoOne)}
\* Records as keys and entries; equal numbers of two kinds as keys.
Keys == {Record("b", "V", One), Record("b", "V", Three), SetField(B, Two), Bind("b", AlsoOne),
         DictLit("a", <<<<One, B>>, <<AlsoOne, B>>>>), StoreAt("a", B, B), Read("b", "a", B),
         SetField(ValueAt("a", IntValue(1)), Three), Bind("b", A)}
\* Keys with their own hash, which may change the key's variable or the dict.
DrivenStatements ==
  {Record("b", "W", One), Record("b", "W", AlsoOne), Record("b", "W", Three), Record("b", "V", B), DictLit("a", <<>>),
   DictLit("a", <<<<B, One>>, <<Three, B>>>>), StoreAt("a", B, B), StoreAt("a", One, B), Read("b", "a", B),
   SetField(B, Three)}
InHash == {StoreAt("a", One, One), DictLit("a", <<>>), SetField(B, Two)}
\* The same with a hash that may bind the key's variable anew.
Rebound ==
  {Record("b", "W", One), Record("b", "W", Three), DictLit("a", <<>>), DictLit("a", <<<<B, One>>, <<Three, B>>>>),
   StoreAt("a", B, B), StoreAt("a", One, B), Read("b", "a", B), SetField(B, Three)}
\* Two dicts with such a key, which may have no native hash.
Apart == {ListLit("b", <<One>>), Record("b", "W", One), Record("b", "W", B), DictLit("a", <<<<B, One>>>>),
          DictLit("b", <<<<B, AlsoOne>>>>), Bind("b", A)}
\* Objects with an identity, and cycles through them.
Cycles == {Record("a", "R", One), Record("b", "R", A), SetField(A, B),
           ListLit("b", <<A, A>>), DictLit("b", <<<<One, A>>>>)}

Program(main, hash, objects) == [main |-> main, hash |-> hash, objects |-> objects]
MCPrograms == {Program(Copies, {}, 4), Program(Keys, {}, 4), Program(DrivenStatements, InHash, 4),
               Program(Rebound, {StoreAt("a", One, One), Bind("b", One), SetField(B, Two)}, 4),
               Program(Apart, {}, 5), Program(Cycles, {}, 4)}
RECURSIVE MCSquash(_)
MCSquash(w) ==
  CASE w[1] = "int" -> <<"int", w[2] % 2>> [] w[1] = "rec" -> <<"rec", MCSquash(w[3])>> [] OTHER -> <<w[1]>>
=============================================================================
