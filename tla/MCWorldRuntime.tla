--------------------------- MODULE MCWorldRuntime ---------------------------
(* Two runtimes on one database: both take commands, or one does while its *)
(* host makes a view and its System asks for reads.                        *)
EXTENDS WorldServices

CONSTANTS ra, rb, e1, n1, g1, alice, bob, act, rule, note, thing, link, shown, ours, theirs, one, two

Command(id, schema, p, actor, expected, payload) ==
    [id |-> id, schema |-> schema, principal |-> p, actor |-> actor,
     expected |-> expected, payload |-> payload]

\* "flip" by an ordinary System, "own" by an authority manager, and a command
\* that uses the identity of "own" for something else.
MCCommands ==
    { Command("flip", act, alice, PrincipalActor(alice), {}, one),
      Command("own", rule, alice, PrincipalActor(alice), {}, one),
      Command("own", act, alice, PrincipalActor(alice), {}, one) }

Tx(mutations) == [mutations |-> mutations, events |-> <<>>, effects |-> <<>>]

Flag == [target |-> WorldTarget, schema |-> note]
Turn(payload) == Tx(<<SetFacet(WorldTarget, note, payload)>>)
Gift == [principal |-> bob, actor |-> e1, scope |-> {}, through |-> {}]
Own == Tx(<<CreateEntity(e1, thing), CreateRelation(n1, link, e1, e1), GrantControl(g1, Gift)>>)
Disown == Tx(<<RevokeControl(g1)>>)
MCTransactions == {Turn(one), Turn(two), Own, Disown}

\* The proposal depends on the state it was evaluated in, so a stale evaluation
\* shows; the ordinary System sometimes tries to change authority.
MCEvaluate(c, st) ==
    IF c.schema = rule
    THEN {IF e1 \in st.entities THEN Disown ELSE Own}
    ELSE {IF Flag \in DOMAIN st.facets /\ st.facets[Flag] = one THEN Turn(two) ELSE Turn(one)}
         \cup {Disown : g \in DOMAIN st.grants}

MCSystems == {act, rule}
MCPrivileged == {rule}
Definition(key, kind, owner) == [key |-> key, kind |-> kind, owner |-> owner]
MCSchemaBatches ==
    { {Definition(act, "Command", ours), Definition(rule, "Command", theirs),
       Definition(note, "Facet", ours), Definition(thing, "Entity", theirs),
       Definition(link, "Relation", ours), Definition(shown, "Projection", ours)} }

\* The projection is of the owner of the facet and the relation; the entity, at
\* both ends of the relation, is of another extension.
MCRequests ==
    { [read |-> "entity", entity |-> e1], [read |-> "relation", relation |-> n1],
      [read |-> "facet", target |-> WorldTarget, schema |-> note],
      [read |-> "control", entity |-> e1, schema |-> act] }

TwoRuntimes == views = 0 /\ \A r \in Runtimes : asking[r] = NotAsked
OneWithServices == phase[rb] = "down" /\ phase[ra] # "draining"

MCNext == ServicesNext /\ (TwoRuntimes' \/ OneWithServices')
MCSpec == ServicesInit /\ [][MCNext]_allVars /\ ServicesFairness
=============================================================================
