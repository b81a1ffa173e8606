---------------------------- MODULE MCWorldStore ----------------------------
(* One world store with a small universe of commands and proposals.        *)
EXTENDS WorldStore

CONSTANTS w1, w2, e1, e2, r1, g1, g2, alice, bob, act, note, thing, link, happened, send, one, two

\* Bob acts as the entity e1, which needs a grant; Alice manages authority as
\* herself.  Two commands share an identity.
Command(id, schema, p, actor, expected, payload) ==
    [id |-> id, schema |-> schema, principal |-> p, actor |-> actor,
     expected |-> expected, payload |-> payload]

MCCommands ==
    { Command("build", act, alice, PrincipalActor(alice), {}, one),
      Command("build", act, alice, PrincipalActor(alice), {}, two),
      Command("play", act, bob, EntityActor(e1), {}, one),
      Command("forge", act, bob, PrincipalActor(alice), {}, one),
      Command("again", act, alice, PrincipalActor(alice), {1}, one),
      Command("tidy", act, alice, PrincipalActor(alice), {}, one) }

Grant(p, e, scope, through) ==
    [principal |-> p, actor |-> e, scope |-> scope, through |-> through]

Draft(id, schema) == [id |-> id, schema |-> schema]
Tx(mutations, evs, effects) ==
    [mutations |-> mutations, events |-> evs, effects |-> effects]

\* Between them the proposals create and tear down every kind of row, grant and
\* revoke control, reuse an event or effect identity, fail at their second
\* mutation, or are empty.
MCTransactions ==
    { Tx(<<CreateEntity(e1, thing), GrantControl(g1, Grant(bob, e1, {{act}}, {2}))>>,
         <<Draft("created", happened)>>, <<Draft("mail", send)>>),
      Tx(<<CreateEntity(e2, thing), CreateRelation(r1, link, e1, e2),
           SetFacet(RelationTarget(r1), note, one)>>, <<>>, <<>>),
      Tx(<<DeleteEntity(e1)>>, <<Draft("gone", happened)>>, <<>>),
      Tx(<<DeleteEntity(e2), SetFacet(EntityTarget(e1), note, one)>>, <<>>, <<>>),
      Tx(<<GrantControl(g2, Grant(bob, e1, {}, {})), SetFacet(EntityTarget(e1), note, two)>>,
         <<Draft("granted", happened)>>, <<Draft("mail", send)>>),
      Tx(<<RevokeControl(g1), DeleteRelation(r1)>>, <<>>, <<>>),
      Tx(<<SetFacet(WorldTarget, note, one), RemoveFacet(WorldTarget, note)>>,
         <<>>, <<Draft("post", send)>>),
      Tx(<<>>, <<>>, <<>>) }

\* The second batch redefines a facet schema: it is registered only when the first
\* is not, and then conflicts with it.
MCSchemaBatches ==
    { {[key |-> act, kind |-> "Command"], [key |-> note, kind |-> "Facet"],
       [key |-> thing, kind |-> "Entity"], [key |-> link, kind |-> "Relation"],
       [key |-> happened, kind |-> "Event"], [key |-> send, kind |-> "Effect"]},
      {[key |-> note, kind |-> "Event"]} }
=============================================================================
