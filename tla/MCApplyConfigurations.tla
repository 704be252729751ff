----------------------- MODULE MCApplyConfigurations -----------------------
(* TLC instance of ApplyConfigurations over the generated kinds.           *)
EXTENDS ApplyConfigurations, TLC

Table == INSTANCE AgentgatewayConfigurations

\* What the methods of a kind do, but for the names: to the depth of the
\* configurations that Builders structs can be nested to.
\* (f @@ <<>> is f, as a table and no longer as a rule to compute it by.)
Shapes(every) ==
    LET shape[n \in 0..2] ==
            [k \in DOMAIN every |->
                {[does |-> every[k][f].does,
                  part |-> IF n > 0 /\ every[k][f].kind # "value" THEN shape[n - 1][every[k][f].kind]
                                                                  ELSE {}] : f \in DOMAIN every[k]}]
            @@ <<>>
    IN  shape[2]

\* One kind stands for all of its shape, and one method of a kind for all that
\* do the same: they are the same code with other names.
Distinct(every) ==
    LET shapes == Shapes(every)
        kinds  == [k \in DOMAIN every |-> CHOOSE other \in DOMAIN every : shapes[other] = shapes[k]]
                  @@ [value |-> "value"]
        methods(k) ==
            LET does  == [f \in DOMAIN every[k] |->
                             [does |-> every[k][f].does, kind |-> kinds[every[k][f].kind]]] @@ <<>>
                one   == {CHOOSE f \in DOMAIN does : does[f] = m : m \in {does[f] : f \in DOMAIN does}}
            IN  [f \in one |-> does[f]] @@ <<>>
    IN  [k \in {kinds[k] : k \in DOMAIN every} |-> methods(k)] @@ <<>>

DistinctMethods == Distinct(Table!WithMethods)

\* TLC evaluates a definition once, but the constant it stands for at every use.
MCMethods   == DistinctMethods
MCRoots     == Table!RootKinds \intersect DOMAIN DistinctMethods
=============================================================================
