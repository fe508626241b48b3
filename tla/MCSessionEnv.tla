---------------------------- MODULE MCSessionEnv ----------------------------
(* A small instance of SessionEnv: a PATH in two forms, references to a    *)
(* plain, an expandable, an inherited and an unknown name, an empty one, an *)
(* unpaired "%", a value that is not a string and one that hides an         *)
(* inherited value, and an inherited block that has PATH twice.             *)
EXTENDS SessionEnv

MCWords == {"%", ";", "PATH", "TERM", "TOOLS", "ROOT",
            "a", "b", "c", "d", "r", "t", "x"}

Value(name, kind, value) == [name |-> name, kind |-> kind, value |-> value]

MCEntries ==
  {Value("PATH", "plain", <<"a", ";", "b", ";", "a", ";">>),
   Value("PATH", "expand", <<"%", "TOOLS", "%", ";", "%", "ROOT", "%">>),
   Value("TOOLS", "expand", <<"%", "ROOT", "%", "%", "%", "%">>),
   Value("ROOT", "plain", <<"t">>),
   Value("ROOT", "other", <<>>)}

MCBases ==
  {<<Entry("PATH", <<"b">>), Entry("ROOT", <<"r">>), Entry("PATH", <<"c">>),
     Entry("TERM", <<"d">>)>>}

MCTerm == <<"x">>
=============================================================================
