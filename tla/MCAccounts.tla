----------------------------- MODULE MCAccounts ------------------------------
\* Two parts of the life of Accounts: sessions alone, from the first login on;
\* and the notebook, in one instant, with everybody signed in.
EXTENDS Accounts, FiniteSets, TLC

Tabs == Permutations(Call) \union Permutations(Token)

SessionsStart ==
    /\ now = 0
    /\ tokenOf = [t \in Token |-> Nothing] /\ expires = [t \in Token |-> 0]
    /\ cookie = [u \in User |-> NoCookie]
    /\ made = TRUE
    /\ visit = [t \in Token |-> 0]

NotebookStart ==
    /\ now = MaxTime
    /\ tokenOf \in {f \in [Token -> User] : \A u \in User : \E t \in Token : f[t] = u}
    /\ expires = [t \in Token |-> now + Ttl]
    /\ cookie \in {f \in [User -> [token : Token, until : {now + Ttl}]] :
                     \A u \in User : tokenOf[f[u].token] = u}
    /\ made = FALSE
    /\ visit = [t \in Token |-> now]

MCInit ==
    /\ SessionsStart \/ NotebookStart
    /\ there = FALSE /\ pub = 0 /\ draft = FALSE /\ private = FALSE /\ readers = {}
    /\ call = [c \in Call |-> NoCall]
    /\ pushes = 0
    /\ slipped = {}
    /\ now = MaxTime => \A t \in Token : tokenOf[t] = Owner => Alive(t)
    /\ saw = [c \in Call |-> NothingSeen]

MCSpec == MCInit /\ [][Next]_vars

SessionOps == {"info", "login", "logout"}

\* The owner's sessions first; then the owner acts while another person reads.
SessionsThenNotebook ==
    /\ \A c \in Call :
         \/ At(c, "none")
         \/ call[c].op \in SessionOps /\ now < MaxTime /\ call[c].by = Owner
            /\ (call[c].op = "login" => now < 2)
         \/ call[c].op = "view" /\ now = MaxTime /\ call[c].by # Owner
         \/ call[c].op \notin SessionOps \union {"view"} /\ now = MaxTime
            /\ call[c].by = Owner /\ call[c].arg # Owner
    /\ slipped = {}
    /\ now = MaxTime => \A t \in Token : tokenOf[t] = Owner => Alive(t)
    /\ Cardinality({c \in Call : call[c].op = "view"}) <= 1
=============================================================================
