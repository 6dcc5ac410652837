----------------------- MODULE MCDefinitionValidation -----------------------
(***************************************************************************)
(* Programs of up to three definitions publish every choice of paths in    *)
(* any lexical order and of one or two return kinds; one definition may    *)
(* have an effect, a capability and perhaps a handler, which is a          *)
(* definition's path or another name.  Programs of four publish paths that *)
(* are not in stable order.                                                *)
(***************************************************************************)
EXTENDS DefinitionValidation

Paths(n) == {p \in [1 .. n -> 1 .. n] : \A d, e \in 1 .. n : d # e => p[d] # p[e]}
Kinds(n) == {k \in [1 .. n -> {4, 5}] : k[1] = 4}
Extras(n) == [effect : {6}, capability : {8}, handler : (1 .. n) \cup {NoText, 7}]
NoExtra == [effect |-> NoText, capability |-> NoText, handler |-> NoText]

Publication(n, paths, kinds, special, extra) ==
  [d \in 1 .. n |-> [path |-> paths[d], returnKind |-> kinds[d]] @@
                    (IF d = special THEN extra ELSE NoExtra)]

MCPublications ==
  [n \in 0 .. 4 |->
     IF n = 0 THEN {<<>>}
     ELSE IF n = 4 THEN {Publication(4, [d \in 1 .. 4 |-> 5 - d], [d \in 1 .. 4 |-> 6], 0, NoExtra)}
     ELSE {Publication(n, paths, kinds, special, extra) :
             paths \in Paths(n), kinds \in Kinds(n), special \in 0 .. n, extra \in Extras(n)}]
=============================================================================
