---------------------------- MODULE Contracts_proofs ----------------------------
(***************************************************************************)
(* Theorems about the two modules of the contracts of series_contracts.py. *)
(* The first part is about InitialDesign, for any Brief and any size of    *)
(* cast, relationships, world and set of threads; the second about         *)
(* StoryState, for any cast, any threads and any number of scenes, updates *)
(* and operations.                                                         *)
(***************************************************************************)
EXTENDS InitialDesign, StoryState, FiniteSetTheorems, TLAPS
-----------------------------------------------------------------------------
(* The Initial Design.                                                      *)

\* The stages in their order, from the one named on.
FromAccept == {"initial_accept", "series_plan"}
FromIntegrate == {"initial_integrate"} \union FromAccept
FromEnding == {"initial_ending"} \union FromIntegrate
FromThreads == {"initial_threads"} \union FromEnding
FromKnowledge == {"initial_knowledge"} \union FromThreads
FromWorld == {"initial_world"} \union FromKnowledge
FromRelationships == {"initial_relationships"} \union FromWorld
FromCharacters == {"initial_characters"} \union FromRelationships

\* A design has these parts and no others.
Formed(d) ==
    d = [says |-> d.says, characters |-> d.characters,
         relationships |-> d.relationships, locations |-> d.locations,
         fact |-> d.fact, threads |-> d.threads, ending |-> d.ending]

\* The parts are as before, but for the texts.
SameDesign(e, d) ==
    /\ e.characters = d.characters /\ e.relationships = d.relationships
    /\ e.locations = d.locations /\ e.fact = d.fact
    /\ e.threads = d.threads /\ e.ending = d.ending

\* What the contracts passed so far go on saying of the design, and that there
\* is a text for each part that was told.
Passed ==
    /\ stage \in {"initial_concept"} \union FromCharacters
    /\ Formed(design) /\ design.says = {}
    /\ stage \in FromCharacters => {} \in Texts("concept")
    /\ stage \in FromRelationships => ValidCharacters(design) /\ {} \in Texts("cast")
    /\ stage \in FromWorld => ValidRelationships(design)
    /\ stage \in FromKnowledge => ValidWorld(design) /\ {} \in Texts("world")
    /\ stage \in FromThreads => ValidKnowledge(design)
    /\ stage \in FromEnding => ValidThreads(design)
    /\ stage \in FromIntegrate => ValidEnding(design)
    /\ stage = "series_plan" => generation = InitialState(design)

\* The sequences a candidate may list.
LEMMA SequencesOf ==
    ASSUME NEW S, NEW n \in Nat, NEW s \in SeqOf(S, n)
    PROVE  s \in Seq(S) /\ Len(s) <= n
<1>1. PICK m \in 0 .. n : s \in [1 .. m -> S]
    BY DEF SeqOf
<1>2. QED
    BY <1>1

\* A single element is a short sequence.
LEMMA ShortSequences ==
    ASSUME NEW S, NEW x \in S, NEW n \in Nat \ {0}
    PROVE  <<x>> \in SeqOf(S, n)
<1>1. <<x>> \in [1 .. 1 -> S] /\ 1 \in 0 .. n
    OBVIOUS
<1>2. QED
    BY <1>1 DEF SeqOf

\* A text that contains no word to avoid exists unless the part is unspeakable.
LEMMA Speakable ==
    ASSUME NEW part
    PROVE  {} \in Texts(part) <=> ~Unspeakable(part)
BY DEF Texts, Unspeakable

\* The parts a contract looks at decide what it says.
LEMMA SameParts ==
    ASSUME NEW d, NEW e, e.says = d.says
    PROVE  /\ e.characters = d.characters /\ ValidCharacters(d)
                => ValidCharacters(e)
           /\ e.characters = d.characters /\ e.relationships = d.relationships
              /\ ValidRelationships(d) => ValidRelationships(e)
           /\ e.locations = d.locations /\ ValidWorld(d) => ValidWorld(e)
           /\ e.characters = d.characters /\ e.fact = d.fact
              /\ ValidKnowledge(d) => ValidKnowledge(e)
           /\ e.threads = d.threads /\ ValidThreads(d) => ValidThreads(e)
<1>1. /\ e.characters = d.characters /\ ValidCharacters(d) => ValidCharacters(e)
      /\ e.locations = d.locations /\ ValidWorld(d) => ValidWorld(e)
    BY DEF ValidCharacters, ValidWorld, Avoids
<1>2. e.characters = d.characters /\ e.relationships = d.relationships
      /\ ValidRelationships(d) => ValidRelationships(e)
    BY DEF ValidRelationships
<1>3. e.characters = d.characters /\ e.fact = d.fact
      /\ ValidKnowledge(d) => ValidKnowledge(e)
    BY DEF ValidKnowledge, KnowledgeCandidates
<1>4. e.threads = d.threads /\ ValidThreads(d) => ValidThreads(e)
    BY DEF ValidThreads
<1>5. QED
    BY <1>1, <1>2, <1>3, <1>4

\* The Brief, and with it the words to avoid, stays as it is.
LEMMA SameBrief ==
    ASSUME avoid' = avoid
    PROVE  /\ Formed(design)' <=> Formed(design')
           /\ ValidCharacters(design)' <=> ValidCharacters(design')
           /\ ValidRelationships(design)' <=> ValidRelationships(design')
           /\ ValidWorld(design)' <=> ValidWorld(design')
           /\ ValidKnowledge(design)' <=> ValidKnowledge(design')
           /\ ValidThreads(design)' <=> ValidThreads(design')
           /\ ValidEnding(design)' <=> ValidEnding(design')
           /\ Texts("concept")' = Texts("concept")
           /\ Texts("cast")' = Texts("cast")
           /\ Texts("world")' = Texts("world")
<1>1. /\ Formed(design)' <=> Formed(design')
      /\ ValidCharacters(design)' <=> ValidCharacters(design')
      /\ ValidRelationships(design)' <=> ValidRelationships(design')
      /\ ValidWorld(design)' <=> ValidWorld(design')
      /\ ValidKnowledge(design)' <=> ValidKnowledge(design')
      /\ ValidThreads(design)' <=> ValidThreads(design')
    BY DEF Formed, ValidCharacters, ValidRelationships, ValidWorld,
           ValidKnowledge, KnowledgeCandidates, ValidThreads, Avoids
<1>2. ValidEnding(design)' <=> ValidEnding(design')
    BY DEF ValidEnding, EndingCandidates, EndingPrerequisites, ValidCharacters,
           ValidRelationships, ValidThreads, RequiredThreads, Principals,
           ArcTargets, ArcsOwed, Avoids
<1>3. /\ Texts("concept")' = Texts("concept")
      /\ Texts("cast")' = Texts("cast")
      /\ Texts("world")' = Texts("world")
    BY DEF Texts
<1>4. QED
    BY <1>1, <1>2, <1>3
-----------------------------------------------------------------------------
(* What a candidate of each stage makes of a design.                        *)

\* A concept.
LEMMA NewConcept ==
    ASSUME NEW d, Formed(d), NEW e \in Concepts(d)
    PROVE  /\ Formed(e) /\ e.says = {} /\ {} \in Texts("concept")
           /\ SameDesign(e, d)
<1>1. PICK ws \in Texts("concept") : e = [d EXCEPT !.says = ws]
    BY DEF Concepts
<1>2. e.says = {}
    BY DEF Concepts, Avoids
<1>3. Formed(e) /\ e.says = ws /\ SameDesign(e, d)
    BY <1>1 DEF Formed, SameDesign
<1>4. QED
    BY <1>1, <1>2, <1>3

\* A cast.
LEMMA NewCast ==
    ASSUME NEW d, Formed(d), d.says = {}, NEW e \in Casts(d)
    PROVE  /\ Formed(e) /\ e.says = {} /\ {} \in Texts("cast")
           /\ ValidCharacters(e)
           /\ e.relationships = d.relationships /\ e.locations = d.locations
           /\ e.fact = d.fact /\ e.threads = d.threads /\ e.ending = d.ending
<1>1. PICK cs \in CharacterCandidates, ws \in Texts("cast") : e = WithCast(d, cs, ws)
    BY DEF Casts
<1>2. ValidCharacters(e)
    BY DEF Casts
<1>3. /\ Formed(e) /\ e.says = ws
      /\ e.relationships = d.relationships /\ e.locations = d.locations
      /\ e.fact = d.fact /\ e.threads = d.threads /\ e.ending = d.ending
    BY <1>1 DEF Formed, WithCast
<1>4. ws = {}
    BY <1>2, <1>3 DEF ValidCharacters, Avoids
<1>5. QED
    BY <1>2, <1>3, <1>4

\* The relationships.
LEMMA NewRelationships ==
    ASSUME NEW d, Formed(d), NEW e \in RelationshipSets(d)
    PROVE  /\ Formed(e) /\ e.says = d.says
           /\ ValidRelationships(e)
           /\ e.characters = d.characters /\ e.locations = d.locations
           /\ e.fact = d.fact /\ e.threads = d.threads /\ e.ending = d.ending
<1>1. PICK rs \in RelationshipCandidates : e = [d EXCEPT !.relationships = rs]
    BY DEF RelationshipSets
<1>2. ValidRelationships(e)
    BY DEF RelationshipSets
<1>3. QED
    BY <1>1, <1>2 DEF Formed

\* A world.
LEMMA NewWorld ==
    ASSUME NEW d, Formed(d), d.says = {}, NEW e \in Worlds(d)
    PROVE  /\ Formed(e) /\ e.says = {} /\ {} \in Texts("world")
           /\ ValidWorld(e)
           /\ e.characters = d.characters /\ e.relationships = d.relationships
           /\ e.fact = d.fact /\ e.threads = d.threads /\ e.ending = d.ending
<1>1. PICK ls \in LocationCandidates, ws \in Texts("world") : e = WithWorld(d, ls, ws)
    BY DEF Worlds
<1>2. ValidWorld(e)
    BY DEF Worlds
<1>3. /\ Formed(e) /\ e.says = ws
      /\ e.characters = d.characters /\ e.relationships = d.relationships
      /\ e.fact = d.fact /\ e.threads = d.threads /\ e.ending = d.ending
    BY <1>1 DEF Formed, WithWorld
<1>4. ws = {}
    BY <1>2, <1>3 DEF ValidWorld, Avoids
<1>5. QED
    BY <1>2, <1>3, <1>4

\* The knowledge.
LEMMA NewFact ==
    ASSUME NEW d, Formed(d), NEW e \in Facts(d)
    PROVE  /\ Formed(e) /\ e.says = d.says
           /\ ValidKnowledge(e)
           /\ e.characters = d.characters /\ e.relationships = d.relationships
           /\ e.locations = d.locations /\ e.threads = d.threads
           /\ e.ending = d.ending
<1>1. PICK f \in KnowledgeCandidates(d) : e = [d EXCEPT !.fact = f]
    BY DEF Facts
<1>2. /\ Formed(e) /\ e.says = d.says /\ e.fact = f
      /\ e.characters = d.characters /\ e.relationships = d.relationships
      /\ e.locations = d.locations /\ e.threads = d.threads
      /\ e.ending = d.ending
    BY <1>1 DEF Formed
<1>3. KnowledgeCandidates(e) = KnowledgeCandidates(d)
    BY <1>2 DEF KnowledgeCandidates
<1>4. QED
    BY <1>1, <1>2, <1>3 DEF ValidKnowledge

\* The threads.
LEMMA NewThreads ==
    ASSUME NEW d, Formed(d), NEW e \in ThreadSets(d)
    PROVE  /\ Formed(e) /\ e.says = d.says
           /\ ValidThreads(e)
           /\ e.characters = d.characters /\ e.relationships = d.relationships
           /\ e.locations = d.locations /\ e.fact = d.fact
           /\ e.ending = d.ending
<1>1. PICK ts \in ThreadCandidates : e = [d EXCEPT !.threads = ts]
    BY DEF ThreadSets
<1>2. QED
    BY <1>1 DEF Formed, ValidThreads

\* An ending.
LEMMA NewEnding ==
    ASSUME NEW d, Formed(d), NEW e \in Endings(d)
    PROVE  /\ Formed(e) /\ e.says = d.says
           /\ ValidEnding(e)
           /\ e.characters = d.characters /\ e.relationships = d.relationships
           /\ e.locations = d.locations /\ e.fact = d.fact
           /\ e.threads = d.threads
<1>1. EndingPrerequisites(d)
    BY DEF Endings
<1>2. PICK f \in EndingCandidates(d) : e = [d EXCEPT !.ending = f]
    BY <1>1 DEF Endings
<1>3. /\ Formed(e) /\ e.says = d.says /\ e.ending = f
      /\ e.characters = d.characters /\ e.relationships = d.relationships
      /\ e.locations = d.locations /\ e.fact = d.fact
      /\ e.threads = d.threads
    BY <1>2 DEF Formed
<1>4. EndingCandidates(e) = EndingCandidates(d)
    BY <1>3 DEF EndingCandidates, RequiredThreads, Principals, ArcTargets, ArcsOwed
<1>5. EndingPrerequisites(e)
    BY <1>1, <1>3, SameParts DEF EndingPrerequisites
<1>6. QED
    BY <1>2, <1>3, <1>4, <1>5 DEF ValidEnding
-----------------------------------------------------------------------------
(* The stages.                                                              *)

\* The first stages: concept, cast and relationships.
LEMMA BeginningPasses ==
    ASSUME Passed, InitialConcept \/ InitialCharacters \/ InitialRelationships
    PROVE  Passed'
<1>0. Formed(design) /\ design.says = {} /\ avoid' = avoid
    BY DEF Passed, InitialConcept, InitialCharacters, InitialRelationships, Adopted
<1>1. CASE InitialConcept
  <2>1. design' \in Concepts(design) /\ stage' = "initial_characters"
    BY <1>1 DEF InitialConcept, Adopted
  <2>2. Formed(design') /\ design'.says = {} /\ {} \in Texts("concept")
    BY <1>0, <2>1, NewConcept
  <2>3. QED
    BY <1>0, <2>1, <2>2, SameBrief
    DEF Passed, FromCharacters, FromRelationships, FromWorld, FromKnowledge,
        FromThreads, FromEnding, FromIntegrate, FromAccept
<1>2. CASE InitialCharacters
  <2>1. design' \in Casts(design) /\ stage' = "initial_relationships"
    BY <1>2 DEF InitialCharacters, Adopted
  <2>2. /\ Formed(design') /\ design'.says = {} /\ {} \in Texts("cast")
        /\ ValidCharacters(design')
    BY <1>0, <2>1, NewCast
  <2>3. {} \in Texts("concept")
    BY <1>2 DEF Passed, InitialCharacters, FromCharacters
  <2>4. QED
    BY <1>0, <2>1, <2>2, <2>3, SameBrief
    DEF Passed, FromCharacters, FromRelationships, FromWorld, FromKnowledge,
        FromThreads, FromEnding, FromIntegrate, FromAccept
<1>3. CASE InitialRelationships
  <2>1. design' \in RelationshipSets(design) /\ stage' = "initial_world"
    BY <1>3 DEF InitialRelationships, Adopted
  <2>2. /\ Formed(design') /\ design'.says = {} /\ ValidRelationships(design')
        /\ design'.characters = design.characters
    BY <1>0, <2>1, NewRelationships
  <2>3. {} \in Texts("concept") /\ {} \in Texts("cast") /\ ValidCharacters(design)
    BY <1>3 DEF Passed, InitialRelationships, FromCharacters, FromRelationships
  <2>4. ValidCharacters(design')
    BY <1>0, <2>2, <2>3, SameParts
  <2>5. QED
    BY <1>0, <2>1, <2>2, <2>3, <2>4, SameBrief
    DEF Passed, FromCharacters, FromRelationships, FromWorld, FromKnowledge,
        FromThreads, FromEnding, FromIntegrate, FromAccept
<1>4. QED
    BY <1>1, <1>2, <1>3

\* The middle stages: world, knowledge and threads.
LEMMA WorkPasses ==
    ASSUME Passed, InitialWorld \/ InitialKnowledge \/ InitialThreads
    PROVE  Passed'
<1>0. /\ Formed(design) /\ design.says = {} /\ avoid' = avoid
      /\ {} \in Texts("concept") /\ {} \in Texts("cast")
      /\ ValidCharacters(design) /\ ValidRelationships(design)
    BY DEF Passed, InitialWorld, InitialKnowledge, InitialThreads, Adopted,
           FromCharacters, FromRelationships, FromWorld, FromKnowledge, FromThreads
<1>1. CASE InitialWorld
  <2>1. design' \in Worlds(design) /\ stage' = "initial_knowledge"
    BY <1>1 DEF InitialWorld, Adopted
  <2>2. /\ Formed(design') /\ design'.says = {} /\ {} \in Texts("world")
        /\ ValidWorld(design')
        /\ design'.characters = design.characters
        /\ design'.relationships = design.relationships
    BY <1>0, <2>1, NewWorld
  <2>3. ValidCharacters(design') /\ ValidRelationships(design')
    BY <1>0, <2>2, SameParts
  <2>4. QED
    BY <1>0, <2>1, <2>2, <2>3, SameBrief
    DEF Passed, FromCharacters, FromRelationships, FromWorld, FromKnowledge,
        FromThreads, FromEnding, FromIntegrate, FromAccept
<1>2. CASE InitialKnowledge
  <2>1. design' \in Facts(design) /\ stage' = "initial_threads"
    BY <1>2 DEF InitialKnowledge, Adopted
  <2>2. /\ Formed(design') /\ design'.says = {} /\ ValidKnowledge(design')
        /\ design'.characters = design.characters
        /\ design'.relationships = design.relationships
        /\ design'.locations = design.locations
    BY <1>0, <2>1, NewFact
  <2>3. ValidWorld(design) /\ {} \in Texts("world")
    BY <1>2 DEF Passed, InitialKnowledge, FromKnowledge
  <2>4. ValidCharacters(design') /\ ValidRelationships(design') /\ ValidWorld(design')
    BY <1>0, <2>2, <2>3, SameParts
  <2>5. QED
    BY <1>0, <2>1, <2>2, <2>3, <2>4, SameBrief
    DEF Passed, FromCharacters, FromRelationships, FromWorld, FromKnowledge,
        FromThreads, FromEnding, FromIntegrate, FromAccept
<1>3. CASE InitialThreads
  <2>1. design' \in ThreadSets(design) /\ stage' = "initial_ending"
    BY <1>3 DEF InitialThreads, Adopted
  <2>2. /\ Formed(design') /\ design'.says = {} /\ ValidThreads(design')
        /\ design'.characters = design.characters
        /\ design'.relationships = design.relationships
        /\ design'.locations = design.locations /\ design'.fact = design.fact
    BY <1>0, <2>1, NewThreads
  <2>3. ValidWorld(design) /\ {} \in Texts("world") /\ ValidKnowledge(design)
    BY <1>3 DEF Passed, InitialThreads, FromKnowledge, FromThreads
  <2>4. /\ ValidCharacters(design') /\ ValidRelationships(design')
        /\ ValidWorld(design') /\ ValidKnowledge(design')
    BY <1>0, <2>2, <2>3, SameParts
  <2>5. QED
    BY <1>0, <2>1, <2>2, <2>3, <2>4, SameBrief
    DEF Passed, FromCharacters, FromRelationships, FromWorld, FromKnowledge,
        FromThreads, FromEnding, FromIntegrate, FromAccept
<1>4. QED
    BY <1>1, <1>2, <1>3

\* A design all parts of which were accepted, at the last stages.
LEMMA WholePasses ==
    ASSUME avoid' = avoid,
           stage' \in {"initial_integrate", "initial_accept"},
           Formed(design'), design'.says = {},
           {} \in Texts("concept"), {} \in Texts("cast"), {} \in Texts("world"),
           ValidCharacters(design'), ValidRelationships(design'),
           ValidWorld(design'), ValidKnowledge(design'), ValidThreads(design'),
           ValidEnding(design)'
    PROVE  Passed'
BY SameBrief
DEF Passed, FromCharacters, FromRelationships, FromWorld, FromKnowledge,
    FromThreads, FromEnding, FromIntegrate, FromAccept

\* The ending.
LEMMA EndingPasses ==
    ASSUME Passed, InitialEnding
    PROVE  Passed'
<1>0. /\ Formed(design) /\ design.says = {} /\ avoid' = avoid
      /\ {} \in Texts("concept") /\ {} \in Texts("cast") /\ {} \in Texts("world")
      /\ ValidCharacters(design) /\ ValidRelationships(design)
      /\ ValidWorld(design) /\ ValidKnowledge(design) /\ ValidThreads(design)
    BY DEF Passed, InitialEnding, Adopted, FromCharacters, FromRelationships,
           FromWorld, FromKnowledge, FromThreads, FromEnding
<1>1. design' \in Endings(design) /\ stage' = "initial_integrate"
    BY DEF InitialEnding, Adopted
<1>2. /\ Formed(design') /\ design'.says = {} /\ ValidEnding(design')
      /\ design'.characters = design.characters
      /\ design'.relationships = design.relationships
      /\ design'.locations = design.locations /\ design'.fact = design.fact
      /\ design'.threads = design.threads
    BY <1>0, <1>1, NewEnding
<1>3. /\ ValidCharacters(design') /\ ValidRelationships(design')
      /\ ValidWorld(design') /\ ValidKnowledge(design') /\ ValidThreads(design')
    BY <1>0, <1>2, SameParts
<1>4. ValidEnding(design)'
    BY <1>0, <1>2, SameBrief
<1>5. QED
    BY <1>0, <1>1, <1>2, <1>3, <1>4, WholePasses

\* The revision of the whole: every part may be a new one, and each was held
\* against those that came with it.
LEMMA IntegratePasses ==
    ASSUME Passed, InitialIntegrate
    PROVE  Passed'
<1>0. Formed(design) /\ avoid' = avoid /\ stage' = "initial_accept"
    BY DEF Passed, InitialIntegrate, Adopted
<1>1. PICK concept \in Concepts(design) :
           \E cast \in Casts(concept) :
           \E related \in RelationshipSets(cast) :
           \E world \in Worlds(related) :
           \E fact \in Facts(world) :
           \E threaded \in ThreadSets(fact) :
               design' \in Endings(threaded)
    BY Zenon DEF InitialIntegrate, Alike
<1>2. PICK cast \in Casts(concept) :
           \E related \in RelationshipSets(cast) :
           \E world \in Worlds(related) :
           \E fact \in Facts(world) :
           \E threaded \in ThreadSets(fact) :
               design' \in Endings(threaded)
    BY <1>1
<1>3. PICK related \in RelationshipSets(cast) :
           \E world \in Worlds(related) :
           \E fact \in Facts(world) :
           \E threaded \in ThreadSets(fact) :
               design' \in Endings(threaded)
    BY <1>2
<1>4. PICK world \in Worlds(related) :
           \E fact \in Facts(world) :
           \E threaded \in ThreadSets(fact) :
               design' \in Endings(threaded)
    BY <1>3
<1>5. PICK fact \in Facts(world) :
           \E threaded \in ThreadSets(fact) :
               design' \in Endings(threaded)
    BY <1>4
<1>6. PICK threaded \in ThreadSets(fact) : design' \in Endings(threaded)
    BY <1>5
<1>7. Formed(concept) /\ concept.says = {} /\ {} \in Texts("concept")
    BY <1>0, NewConcept
<1>8. /\ Formed(cast) /\ cast.says = {} /\ {} \in Texts("cast")
      /\ ValidCharacters(cast)
    BY <1>7, NewCast
<1>9. /\ Formed(related) /\ related.says = {} /\ ValidRelationships(related)
      /\ related.characters = cast.characters
    BY <1>8, NewRelationships
<1>10. /\ Formed(world) /\ world.says = {} /\ {} \in Texts("world")
      /\ ValidWorld(world) /\ world.characters = related.characters
      /\ world.relationships = related.relationships
    BY <1>9, NewWorld
<1>11. /\ Formed(fact) /\ fact.says = {} /\ ValidKnowledge(fact)
      /\ fact.characters = world.characters
      /\ fact.relationships = world.relationships
      /\ fact.locations = world.locations
    BY <1>6, <1>10, NewFact
<1>12. /\ Formed(threaded) /\ threaded.says = {} /\ ValidThreads(threaded)
       /\ threaded.characters = fact.characters
       /\ threaded.relationships = fact.relationships
       /\ threaded.locations = fact.locations /\ threaded.fact = fact.fact
    BY <1>6, <1>11, NewThreads
<1>13. /\ Formed(design') /\ design'.says = {} /\ ValidEnding(design')
       /\ design'.characters = threaded.characters
       /\ design'.relationships = threaded.relationships
       /\ design'.locations = threaded.locations
       /\ design'.fact = threaded.fact /\ design'.threads = threaded.threads
    BY <1>6, <1>12, NewEnding
<1>14. ValidCharacters(design')
    BY <1>8, <1>9, <1>10, <1>11, <1>12, <1>13, SameParts
<1>15. ValidRelationships(design')
  <2>1. /\ design'.characters = related.characters
        /\ design'.relationships = related.relationships
        /\ design'.says = related.says
    BY <1>9, <1>10, <1>11, <1>12, <1>13
  <2>2. QED
    BY <1>9, <2>1, SameParts
<1>16. ValidWorld(design')
    BY <1>10, <1>11, <1>12, <1>13, SameParts
<1>17. ValidKnowledge(design')
    BY <1>11, <1>12, <1>13, SameParts
<1>18. ValidThreads(design')
    BY <1>12, <1>13, SameParts
<1>19. ValidEnding(design)'
    BY <1>0, <1>13, SameBrief
<1>20. QED
    BY <1>0, <1>7, <1>8, <1>10, <1>13, <1>14, <1>15, <1>16, <1>17, <1>18, <1>19,
       WholePasses

\* initial_accept, and a candidate that is refused.
LEMMA AcceptPasses ==
    ASSUME Passed, InitialAccept \/ Refused \/ UNCHANGED designVars
    PROVE  Passed'
<1>1. CASE InitialAccept
  <2>1. /\ stage = "initial_accept" /\ stage' = "series_plan"
        /\ avoid' = avoid /\ design' = design
        /\ generation' = InitialState(design)
    BY <1>1 DEF InitialAccept
  <2>2. InitialState(design)' = InitialState(design)
    BY <2>1 DEF InitialState
  <2>3. QED
    BY <2>1, <2>2, SameBrief
    DEF Passed, FromCharacters, FromRelationships, FromWorld, FromKnowledge,
        FromThreads, FromEnding, FromIntegrate, FromAccept
<1>2. CASE Refused \/ UNCHANGED designVars
  <2>1. /\ avoid' = avoid /\ stage' = stage /\ design' = design
        /\ generation' = generation
    BY <1>2 DEF Refused, designVars
  <2>2. InitialState(design)' = InitialState(design)
    BY <2>1 DEF InitialState
  <2>3. QED
    BY <2>1, <2>2, SameBrief
    DEF Passed, FromCharacters, FromRelationships, FromWorld, FromKnowledge,
        FromThreads, FromEnding, FromIntegrate, FromAccept
<1>3. QED
    BY <1>1, <1>2

\* What the contracts passed say of the design holds throughout.
LEMMA PassedAlways == DesignSpec => []Passed
<1>1. DesignInit => Passed
    BY DEF DesignInit, NoDesign, Passed, Formed, FromCharacters, FromRelationships,
           FromWorld, FromKnowledge, FromThreads, FromEnding, FromIntegrate,
           FromAccept
<1>2. Passed /\ [DesignNext]_designVars => Passed'
    BY BeginningPasses, WorkPasses, EndingPasses, IntegratePasses, AcceptPasses
    DEF DesignNext, Adopt
<1>3. QED
    BY <1>1, <1>2, PTL DEF DesignSpec

\* For every Brief and every size of cast, relationships, world and set of
\* threads, and whatever of them integrate revises at once: what the end of the
\* series will be asked for is in the first Generation, in a state the scenes
\* can work from.
THEOREM FirstGenerationServesEnding == DesignSpec => []GenerationServesEnding
<1>1. Passed => GenerationServesEnding
  <2> SUFFICES ASSUME Passed, stage = "series_plan"
               PROVE  GenerationServesEnding
    BY DEF GenerationServesEnding
  <2>0. /\ ValidCharacters(design) /\ ValidWorld(design) /\ ValidKnowledge(design)
        /\ ValidThreads(design) /\ ValidEnding(design)
        /\ generation = InitialState(design)
    BY DEF Passed, FromCharacters, FromRelationships, FromWorld, FromKnowledge,
           FromThreads, FromEnding, FromIntegrate, FromAccept
  <2> DEFINE IsRoot(l) == /\ design.locations[l] = 0
                          /\ \A m \in 1 .. l - 1 : design.locations[m] # 0
             root == CHOOSE l \in DOMAIN design.locations : IsRoot(l)
  <2>1. root \in DOMAIN design.locations /\ design.locations[root] = 0
    <3>1. /\ design.locations \in Seq(0 .. MaxLocations)
          /\ design.locations # <<>>
          /\ \A l \in DOMAIN design.locations : design.locations[l] < l
        BY <2>0, SequencesOf, InitialAssumption DEF ValidWorld, LocationCandidates
    <3>2. 1 \in DOMAIN design.locations
        BY <3>1
    <3>3. design.locations[1] = 0
        BY <3>1, <3>2, InitialAssumption
    <3>4. IsRoot(1)
        BY <3>3
    <3>5. root \in DOMAIN design.locations /\ IsRoot(root)
        BY <3>2, <3>4
    <3>6. QED
        BY <3>5
  <2>2. generation = [characters |-> [c \in DOMAIN design.characters |->
                                        [place |-> root,
                                         belief |-> design.fact.known[c]]],
                      relationships |-> DOMAIN design.relationships,
                      threads |-> [t \in DOMAIN design.threads |->
                                        design.threads[t].status]]
    BY <2>0 DEF InitialState
  <2> HIDE DEF root
  <2>3. /\ DOMAIN generation.characters = DOMAIN design.characters
        /\ generation.relationships = DOMAIN design.relationships
        /\ DOMAIN generation.threads = DOMAIN design.threads
        /\ \A c \in DOMAIN design.characters :
                /\ generation.characters[c].place = root
                /\ generation.characters[c].belief = design.fact.known[c]
    BY <2>2
  <2>4. /\ design.ending.characters \subseteq DOMAIN design.characters
        /\ Principals(design) \subseteq design.ending.characters
        /\ design.ending.relationships # {}
        /\ design.ending.relationships \subseteq DOMAIN design.relationships
        /\ design.ending.threads # {}
        /\ design.ending.threads = RequiredThreads(design)
        /\ ArcsOwed(design) \subseteq design.ending.arcs
    <3> DEFINE e == design.ending
    <3>1. /\ e.characters \in {cs \in SUBSET DOMAIN design.characters :
                                  cs # {} /\ Principals(design) \subseteq cs}
          /\ e.relationships \in (SUBSET DOMAIN design.relationships) \ {{}}
          /\ e.threads \in {RequiredThreads(design)} \ {{}}
          /\ e.arcs \in {ArcsOwed(design) \union as :
                             as \in SUBSET (ArcTargets(design) \ ArcsOwed(design))}
        BY <2>0 DEF ValidEnding, EndingCandidates
    <3> HIDE DEF e
    <3>2. ArcsOwed(design) \subseteq e.arcs
        BY <3>1
    <3>3. /\ e.characters \subseteq DOMAIN design.characters
          /\ Principals(design) \subseteq e.characters
          /\ e.relationships # {}
          /\ e.relationships \subseteq DOMAIN design.relationships
          /\ e.threads # {} /\ e.threads = RequiredThreads(design)
        BY <3>1
    <3>4. QED
        BY <3>2, <3>3 DEF e
  <2>5. Principals(design) # {}
    BY <2>0 DEF ValidCharacters, CharacterCandidates, Principals, Range
  <2>6. \A t \in design.ending.threads : <<"thread", t>> \in design.ending.arcs
    BY <2>4 DEF ArcsOwed
  <2>7. \A t \in DOMAIN design.threads \ RequiredThreads(design) :
            ~design.threads[t].major
    BY <2>0 DEF ValidThreads, ThreadCandidates, RequiredThreads, Range
  <2>8. \A c \in DOMAIN design.characters :
            design.fact.known[c] = "knows" => design.fact.truth = "true"
    <3>1. /\ DOMAIN design.fact.known = DOMAIN design.characters
          /\ design.fact.truth # "true" => "knows" \notin Range(design.fact.known)
        BY <2>0 DEF ValidKnowledge, KnowledgeCandidates
    <3>2. QED
        BY <3>1 DEF Range
  <2>9. RequiredThreads(design) \subseteq DOMAIN design.threads
    BY DEF RequiredThreads
  <2>10. QED
    BY <2>1, <2>3, <2>4, <2>5, <2>6, <2>7, <2>8, <2>9 DEF GenerationServesEnding
<1>2. QED
    BY <1>1, PassedAlways, PTL
-----------------------------------------------------------------------------
(* What each stage finds to accept.                                         *)

\* A concept, unless the Brief avoids what every concept says.
LEMMA ConceptFound ==
    ASSUME Passed, ~Unspeakable("concept")
    PROVE  Concepts(design) # {}
<1>1. {} \in Texts("concept")
    BY Speakable
<1>2. [design EXCEPT !.says = {}] \in Concepts(design)
    BY <1>1 DEF Passed, Formed, Concepts, Avoids
<1>3. QED
    BY <1>2

\* A protagonist alone is an acceptable cast.
LEMMA CastFound ==
    ASSUME Passed, ~Unspeakable("cast")
    PROVE  Casts(design) # {}
<1> DEFINE cs == <<"protagonist">>
           d == WithCast(design, cs, {})
<1>1. cs \in CharacterCandidates
  <2>1. cs \in SeqOf(Roles, MaxCharacters)
    BY ShortSequences, InitialAssumption
  <2>2. "protagonist" \in Range(cs)
    BY DEF Range
  <2>3. QED
    BY <2>1, <2>2 DEF CharacterCandidates
<1>2. d.says = {} /\ d.characters = cs
    BY DEF Passed, Formed, WithCast
<1>3. ValidCharacters(d)
    BY <1>1, <1>2 DEF ValidCharacters, Avoids
<1>4. d \in Casts(design)
    BY <1>1, <1>3, Speakable DEF Casts
<1>5. QED
    BY <1>4

\* Two characters of the cast can always be related.
LEMMA RelationshipFound ==
    ASSUME Passed, stage = "initial_relationships", ~Alone
    PROVE  RelationshipSets(design) # {}
<1>0. PICK y \in Types : TRUE
    BY InitialAssumption
<1> DEFINE r == [who |-> {1, 2}, type |-> y]
           rs == <<r>>
           d == [design EXCEPT !.relationships = rs]
<1>1. /\ Len(design.characters) \in Nat /\ Len(design.characters) >= 2
      /\ Len(design.characters) <= MaxCharacters
      /\ DOMAIN design.characters = 1 .. Len(design.characters)
  <2>1. design.characters \in SeqOf(Roles, MaxCharacters)
    BY DEF Passed, FromRelationships, ValidCharacters, CharacterCandidates
  <2>2. design.characters \in Seq(Roles) /\ Len(design.characters) <= MaxCharacters
    BY <2>1, SequencesOf, InitialAssumption
  <2>3. QED
    BY <2>2 DEF Alone
<1>2. Cardinality({1, 2}) = 2
  <2>1. IsFiniteSet({1}) /\ Cardinality({1}) = 1
    BY FS_Singleton
  <2>2. Cardinality({1} \union {2}) = 2
    BY <2>1, FS_AddElement
  <2>3. QED
    BY <2>2
<1>3. r \in RelationshipRecords
  <2>1. {1, 2} \in SUBSET (1 .. MaxCharacters)
    BY <1>1, InitialAssumption
  <2>2. Cardinality({1, 2}) \in 2 .. 4
    BY <1>2
  <2>3. {1, 2} \in {c \in SUBSET (1 .. MaxCharacters) : Cardinality(c) \in 2 .. 4}
    BY <2>1, <2>2, Zenon
  <2>4. QED
    BY <2>3 DEF RelationshipRecords
<1>4. rs \in RelationshipCandidates
  <2>1. rs \in SeqOf(RelationshipRecords, MaxRelationships)
    BY <1>3, ShortSequences, InitialAssumption
  <2>2. rs # <<>> /\ IsInjective(rs)
    BY DEF IsInjective
  <2>3. QED
    BY <2>1, <2>2 DEF RelationshipCandidates
<1>5. d.relationships = rs /\ d.characters = design.characters
    BY DEF Passed, Formed
<1>6. Range(rs) = {r}
    BY DEF Range
<1>7. {1, 2} \subseteq DOMAIN design.characters
    BY <1>1
<1>8. ValidRelationships(d)
  <2> HIDE DEF rs, d
  <2>1. \A q \in Range(rs) : q.who \subseteq DOMAIN design.characters
    BY <1>6, <1>7
  <2>2. QED
    BY <1>4, <1>5, <2>1 DEF ValidRelationships
<1>9. d \in RelationshipSets(design)
    BY <1>4, <1>8 DEF RelationshipSets
<1>10. QED
    BY <1>9

\* One location that leads nowhere is an acceptable world.
LEMMA WorldFound ==
    ASSUME Passed, ~Unspeakable("world")
    PROVE  Worlds(design) # {}
<1> DEFINE ls == <<0>>
           d == WithWorld(design, ls, {})
<1>1. ls \in LocationCandidates
  <2>1. 0 \in 0 .. MaxLocations
    BY InitialAssumption
  <2>2. ls \in SeqOf(0 .. MaxLocations, MaxLocations)
    BY <2>1, ShortSequences, InitialAssumption
  <2>3. ls # <<>> /\ \A l \in DOMAIN ls : ls[l] < l
    OBVIOUS
  <2>4. QED
    BY <2>2, <2>3 DEF LocationCandidates
<1>2. d.says = {} /\ d.locations = ls
    BY DEF Passed, Formed, WithWorld
<1>3. ValidWorld(d)
    BY <1>1, <1>2 DEF ValidWorld, Avoids
<1>4. d \in Worlds(design)
    BY <1>1, <1>3, Speakable DEF Worlds
<1>5. QED
    BY <1>4

\* A true fact everybody believes is acceptable.
LEMMA FactFound == Facts(design) # {}
<1> DEFINE f == [truth |-> "true",
                 known |-> [c \in DOMAIN design.characters |-> "believes"]]
<1>1. f \in [truth : Truths, known : [DOMAIN design.characters -> Beliefs]]
    BY InitialAssumption
<1>2. f \in KnowledgeCandidates(design)
    BY <1>1 DEF KnowledgeCandidates
<1>3. [design EXCEPT !.fact = f] \in Facts(design)
    BY <1>2 DEF Facts
<1>4. QED
    BY <1>3

\* One open thread that is required is acceptable.
LEMMA ThreadsFound == ThreadSets(design) # {}
<1> DEFINE t == [major |-> TRUE, required |-> TRUE, status |-> "open", hidden |-> FALSE]
           ts == <<t>>
<1>1. ts \in SeqOf(ThreadRecords, MaxThreads)
  <2>1. t \in ThreadRecords
    BY DEF ThreadRecords
  <2>2. QED
    BY <2>1, ShortSequences, InitialAssumption
<1>2. Range(ts) = {t}
  <2>1. DOMAIN ts = {1} /\ ts[1] = t
    OBVIOUS
  <2>2. QED
    BY <2>1 DEF Range
<1>3. ts \in ThreadCandidates
    BY <1>1, <1>2 DEF ThreadCandidates
<1>4. [design EXCEPT !.threads = ts] \in ThreadSets(design)
    BY <1>3 DEF ThreadSets
<1>5. QED
    BY <1>4

\* All characters, all relationships, the required threads and no arc but
\* those that are owed.
LEMMA EndingFound ==
    ASSUME Passed, stage = "initial_ending", ~AvoidsPlaceholder
    PROVE  Endings(design) # {}
<1> DEFINE e == [characters |-> DOMAIN design.characters,
                 relationships |-> DOMAIN design.relationships,
                 threads |-> RequiredThreads(design),
                 arcs |-> ArcsOwed(design)]
<1>1. /\ ValidCharacters(design) /\ ValidRelationships(design)
      /\ ValidThreads(design) /\ PlaceholderWords \intersect avoid = {}
    BY DEF Passed, AvoidsPlaceholder, FromCharacters, FromRelationships, FromWorld,
           FromKnowledge, FromThreads, FromEnding
<1>2. /\ DOMAIN design.characters # {}
      /\ Principals(design) \subseteq DOMAIN design.characters
    BY <1>1 DEF ValidCharacters, CharacterCandidates, Range, Principals
<1>3. DOMAIN design.relationships # {}
  <2>1. /\ design.relationships \in Seq(RelationshipRecords)
        /\ design.relationships # <<>>
    BY <1>1, SequencesOf, InitialAssumption
    DEF ValidRelationships, RelationshipCandidates
  <2>2. 1 \in DOMAIN design.relationships
    BY <2>1
  <2>3. QED
    BY <2>2
<1>4. RequiredThreads(design) # {}
    BY <1>1 DEF ValidThreads, ThreadCandidates, Range, RequiredThreads
<1>5. ArcsOwed(design) \in
        {ArcsOwed(design) \union as :
            as \in SUBSET (ArcTargets(design) \ ArcsOwed(design))}
  <2>1. ArcsOwed(design) = ArcsOwed(design) \union {}
    OBVIOUS
  <2>2. {} \in SUBSET (ArcTargets(design) \ ArcsOwed(design))
    OBVIOUS
  <2>3. QED
    BY <2>1, <2>2
<1>6. e \in EndingCandidates(design)
  <2>1. DOMAIN design.characters \in
            {cs \in SUBSET DOMAIN design.characters :
                cs # {} /\ Principals(design) \subseteq cs}
    BY <1>2
  <2>2. DOMAIN design.relationships \in (SUBSET DOMAIN design.relationships) \ {{}}
    BY <1>3
  <2>3. RequiredThreads(design) \in {RequiredThreads(design)} \ {{}}
    BY <1>4
  <2>4. QED
    BY <1>5, <2>1, <2>2, <2>3 DEF EndingCandidates
<1>7. EndingPrerequisites(design)
    BY <1>1 DEF EndingPrerequisites
<1>8. [design EXCEPT !.ending = e] \in Endings(design)
    BY <1>6, <1>7 DEF Endings
<1>9. QED
    BY <1>8

\* What is adopted may be handed back as it is.
LEMMA RevisionFound ==
    ASSUME Passed, stage = "initial_integrate"
    PROVE  HandedBack
<1>1. /\ Formed(design) /\ design.says = {}
      /\ {} \in Texts("concept") /\ {} \in Texts("cast") /\ {} \in Texts("world")
      /\ ValidCharacters(design) /\ ValidRelationships(design)
      /\ ValidWorld(design) /\ ValidKnowledge(design) /\ ValidThreads(design)
      /\ ValidEnding(design)
    BY DEF Passed, FromCharacters, FromRelationships, FromWorld, FromKnowledge,
           FromThreads, FromEnding, FromIntegrate
<1>2. design \in Concepts(design)
  <2>1. [design EXCEPT !.says = {}] = design
    BY <1>1 DEF Formed
  <2>2. QED
    BY <1>1, <2>1 DEF Concepts, Avoids
<1>3. design \in Casts(design)
  <2>1. WithCast(design, design.characters, {}) = design
    BY <1>1 DEF Formed, WithCast
  <2>2. design.characters \in CharacterCandidates
    BY <1>1 DEF ValidCharacters
  <2>3. QED
    BY <1>1, <2>1, <2>2 DEF Casts
<1>4. design \in RelationshipSets(design)
  <2>1. [design EXCEPT !.relationships = design.relationships] = design
    BY <1>1 DEF Formed
  <2>2. design.relationships \in RelationshipCandidates
    BY <1>1 DEF ValidRelationships
  <2>3. QED
    BY <1>1, <2>1, <2>2 DEF RelationshipSets
<1>5. design \in Worlds(design)
  <2>1. WithWorld(design, design.locations, {}) = design
    BY <1>1 DEF Formed, WithWorld
  <2>2. design.locations \in LocationCandidates
    BY <1>1 DEF ValidWorld
  <2>3. QED
    BY <1>1, <2>1, <2>2 DEF Worlds
<1>6. design \in Facts(design)
  <2>1. [design EXCEPT !.fact = design.fact] = design
    BY <1>1 DEF Formed
  <2>2. QED
    BY <1>1, <2>1 DEF Facts, ValidKnowledge
<1>7. design \in ThreadSets(design)
  <2>1. [design EXCEPT !.threads = design.threads] = design
    BY <1>1 DEF Formed
  <2>2. QED
    BY <1>1, <2>1 DEF ThreadSets, ValidThreads
<1>8. design \in Endings(design)
  <2>1. [design EXCEPT !.ending = design.ending] = design
    BY <1>1 DEF Formed
  <2>2. QED
    BY <1>1, <2>1 DEF Endings, ValidEnding
<1>9. QED
    BY <1>2, <1>3, <1>4, <1>5, <1>6, <1>7, <1>8 DEF HandedBack

\* For every Brief and every size of cast, relationships, world and set of
\* threads: what the contracts let through leaves every later stage something
\* to accept, but for the three dead ends the property names.
THEOREM EveryStageHasACandidate == DesignSpec => []DesignGoesOn
<1>1. Passed => DesignGoesOn
    BY ConceptFound, CastFound, RelationshipFound, WorldFound, FactFound,
       ThreadsFound, EndingFound, RevisionFound
    DEF DesignGoesOn, AvoidsForm
<1>2. QED
    BY <1>1, PassedAlways, PTL
-----------------------------------------------------------------------------
(* What apply_continuity_operations makes of a state.                       *)

\* No two operations share a field, and each changes a field the state has,
\* from the value it has there.
Applicable(parent, operations) ==
    /\ parent = [f \in DOMAIN parent |-> parent[f]]
    /\ NotTwice(operations)
    /\ \A i \in DOMAIN operations :
            /\ FieldOf(operations[i]) \in DOMAIN parent
            /\ OldOf(operations[i]) = parent[FieldOf(operations[i])]
            /\ NewOf(operations[i]) # OldOf(operations[i])

\* The state after the operations numbered by s, told without their order.
Result(parent, operations, s) ==
    [f \in DOMAIN parent |->
        IF \E i \in s : FieldOf(operations[i]) = f
        THEN NewOf(operations[CHOOSE i \in s : FieldOf(operations[i]) = f])
        ELSE parent[f]]

\* What the fold gives for them: the fields they wrote, none refused.
Effect(parent, operations, s) ==
    [state |-> Result(parent, operations, s),
     seen |-> {FieldOf(operations[i]) : i \in s}, refused |-> FALSE]

\* g applies the operations of every part of D, the last one last.
InOrder(parent, operations, D, g) ==
    g = [s \in SUBSET D |->
            IF s = {} THEN [state |-> parent, seen |-> {}, refused |-> FALSE]
            ELSE ApplyOperation(g[s \ {Max(s)}], operations[Max(s)])]

\* The fold is the value at all operations of the function built for it.
LEMMA ApplyUnfolds ==
    ASSUME NEW parent, NEW operations
    PROVE  Apply(parent, operations) =
            (CHOOSE g : InOrder(parent, operations, DOMAIN operations, g))
                [DOMAIN operations]
BY DEF Apply, FoldLeft, MapThenFoldSet, InOrder

\* Of the subsets of a finite set, some have nothing smaller beside them.
LEMMA SmallestSet ==
    ASSUME NEW S, IsFiniteSet(S), NEW T \in SUBSET (SUBSET S), T # {}
    PROVE  \E s \in T : \A u \in T : u \subseteq s => u = s
<1>1. IsWellFoundedOn(StrictSubsetOrdering(S), SUBSET S)
    BY FS_StrictSubsetOrderingWellFounded, FS_FiniteSubsetsOfFinite
<1>2. PICK s \in T : \A u \in T : <<u, s>> \notin StrictSubsetOrdering(S)
    BY <1>1, WFMin
<1>3. QED
    BY <1>2 DEF StrictSubsetOrdering

\* A set of subsets that holds the empty set and, with all smaller ones, each
\* subset of S, holds S.
LEMMA SetBySet ==
    ASSUME NEW S, IsFiniteSet(S), NEW T, {} \in T,
           \A t \in SUBSET S :
                t # {} /\ (\A u \in SUBSET t : u # t => u \in T) => t \in T
    PROVE  S \in T
<1> DEFINE B == {t \in SUBSET S : t \notin T}
<1>1. SUFFICES ASSUME B # {} PROVE FALSE
    OBVIOUS
<1>2. PICK t \in B : \A u \in B : u \subseteq t => u = t
  <2>1. B \in SUBSET (SUBSET S)
    OBVIOUS
  <2> HIDE DEF B
  <2>2. QED
    BY <1>1, <2>1, SmallestSet
<1>3. \A u \in SUBSET t : u # t => u \in T
    BY <1>2
<1>4. QED
    BY <1>2, <1>3

\* A finite set of numbers has a greatest one.
LEMMA MaxIsIn ==
    ASSUME NEW S \in SUBSET Int, IsFiniteSet(S), S # {}
    PROVE  Max(S) \in S /\ \A y \in S : Max(S) >= y
<1> DEFINE T == {t \in SUBSET S : t = {} \/ \E x \in t : \A y \in t : x >= y}
<1>1. {} \in T
    OBVIOUS
<1>2. ASSUME NEW t \in SUBSET S, t # {}, \A u \in SUBSET t : u # t => u \in T
      PROVE  t \in T
  <2>1. PICK x \in t : TRUE
    BY <1>2
  <2>2. t \ {x} \in T
    BY <1>2, <2>1
  <2>3. CASE t \ {x} = {}
    <3>1. \A y \in t : x >= y
        BY <2>1, <2>3
    <3>2. QED
        BY <2>1, <3>1
  <2>4. CASE t \ {x} # {}
    <3>1. PICK z \in t \ {x} : \A y \in t \ {x} : z >= y
        BY <2>2, <2>4
    <3>2. CASE z >= x
      <4>1. \A y \in t : z >= y
        BY <3>1, <3>2
      <4>2. QED
        BY <4>1
    <3>3. CASE ~(z >= x)
      <4>1. \A y \in t : x >= y
        BY <2>1, <3>1, <3>3
      <4>2. QED
        BY <2>1, <4>1
    <3>4. QED
        BY <3>2, <3>3
  <2>5. QED
    BY <2>3, <2>4
<1>3. S \in T
  <2> HIDE DEF T
  <2>1. QED
    BY <1>1, <1>2, SetBySet
<1>4. QED
    BY <1>3 DEF Max

\* A function that differs from another at one argument only.
LEMMA ChangedAt ==
    ASSUME NEW r, NEW q, NEW D, NEW k \in D, r = [f \in D |-> r[f]],
           q = [f \in D |-> q[f]], \A f \in D : f # k => q[f] = r[f]
    PROVE  [r EXCEPT ![k] = q[k]] = q
OBVIOUS

\* An operation on a field not seen so far, from the value it has, is applied
\* and not refused.
LEMMA Accepted ==
    ASSUME NEW st, NEW seen, NEW o, FieldOf(o) \notin seen,
           OldOf(o) = st[FieldOf(o)], NewOf(o) # OldOf(o)
    PROVE  ApplyOperation([state |-> st, seen |-> seen, refused |-> FALSE], o)
            = [state |-> [st EXCEPT ![FieldOf(o)] = NewOf(o)],
               seen |-> seen \cup {FieldOf(o)}, refused |-> FALSE]
<1> DEFINE e == [state |-> st, seen |-> seen, refused |-> FALSE]
           b == \/ e.refused \/ FieldOf(o) \in e.seen
                \/ OldOf(o) # e.state[FieldOf(o)]
                \/ NewOf(o) = e.state[FieldOf(o)]
<1>1. e.state = st /\ e.seen = seen /\ ~e.refused
    OBVIOUS
<1>2. b = FALSE
    BY <1>1
<1>3. ApplyOperation(e, o)
        = [e EXCEPT !.state[FieldOf(o)] = NewOf(o),
                    !.seen = @ \cup {FieldOf(o)},
                    !.refused = b]
    BY DEF ApplyOperation
<1>4. [e EXCEPT !.state[FieldOf(o)] = NewOf(o),
                !.seen = @ \cup {FieldOf(o)},
                !.refused = b]
      = [e EXCEPT !.state[FieldOf(o)] = NewOf(o),
                  !.seen = @ \cup {FieldOf(o)},
                  !.refused = FALSE]
  <2> HIDE DEF b
  <2>1. QED
    BY <1>2
<1>5. QED
    BY <1>1, <1>3, <1>4

\* One more operation, on a field none of the others touched, is applied and
\* not refused.
LEMMA OneMore ==
    ASSUME NEW parent, NEW operations, Applicable(parent, operations),
           NEW s \in SUBSET DOMAIN operations, NEW i \in DOMAIN operations,
           i \notin s
    PROVE  ApplyOperation(Effect(parent, operations, s), operations[i])
            = Effect(parent, operations, s \cup {i})
<1> DEFINE o == operations[i]
           F(j) == FieldOf(operations[j])
           r == Result(parent, operations, s)
           t == s \cup {i}
<1>1. /\ F(i) \in DOMAIN parent /\ OldOf(o) = parent[F(i)]
      /\ NewOf(o) # OldOf(o)
    BY DEF Applicable
<1>2. \A j \in s : F(j) # F(i)
    BY DEF Applicable, NotTwice, IsInjective
<1>3. r[F(i)] = parent[F(i)]
    BY <1>1, <1>2 DEF Result
<1>4. F(i) \notin {F(j) : j \in s}
    BY <1>2
<1>5. ApplyOperation(Effect(parent, operations, s), o)
        = [state |-> [r EXCEPT ![F(i)] = NewOf(o)],
           seen |-> {F(j) : j \in s} \cup {F(i)}, refused |-> FALSE]
  <2>1. Effect(parent, operations, s)
            = [state |-> r, seen |-> {F(j) : j \in s}, refused |-> FALSE]
    BY DEF Effect
  <2> HIDE DEF r
  <2>2. QED
    BY <1>1, <1>3, <1>4, <2>1, Accepted
<1>6. [r EXCEPT ![F(i)] = NewOf(o)] = Result(parent, operations, t)
  <2> DEFINE q == Result(parent, operations, t)
  <2>1. DOMAIN r = DOMAIN parent /\ DOMAIN q = DOMAIN parent
    BY DEF Result
  <2>2. \A f \in DOMAIN parent : f # F(i) => q[f] = r[f]
    <3>1. SUFFICES ASSUME NEW f \in DOMAIN parent, f # F(i)
                   PROVE  q[f] = r[f]
        OBVIOUS
    <3>2. \A j \in t : F(j) = f <=> j \in s /\ F(j) = f
        BY <3>1
    <3>3. (\E j \in t : F(j) = f) <=> \E j \in s : F(j) = f
        BY <3>2
    <3>4. (CHOOSE j \in t : F(j) = f) = CHOOSE j \in s : F(j) = f
        BY <3>2
    <3>5. QED
        BY <3>1, <3>3, <3>4 DEF Result
  <2>3. q[F(i)] = NewOf(o)
    <3>1. \A j \in t : F(j) = F(i) <=> j = i
        BY <1>2
    <3>2. (CHOOSE j \in t : F(j) = F(i)) = i
        BY <3>1
    <3>3. QED
        BY <1>1, <3>2 DEF Result
  <2>4. /\ r = [f \in DOMAIN parent |-> r[f]]
        /\ q = [f \in DOMAIN parent |-> q[f]]
    BY DEF Result
  <2> HIDE DEF q, r
  <2>5. [r EXCEPT ![F(i)] = q[F(i)]] = q
    BY <1>1, <2>2, <2>4, ChangedAt
  <2>6. QED
    BY <2>3, <2>5 DEF q
<1>7. {F(j) : j \in s} \cup {F(i)} = {F(j) : j \in t}
    OBVIOUS
<1>8. QED
    BY <1>5, <1>6, <1>7 DEF Effect

\* Operations that are each applicable to the parent are applied in any order
\* with the same result, and none is refused.
LEMMA ApplyIs ==
    ASSUME NEW parent, NEW operations, Applicable(parent, operations),
           NEW n \in Nat, DOMAIN operations = 1 .. n
    PROVE  Apply(parent, operations)
            = Effect(parent, operations, DOMAIN operations)
<1> DEFINE D == DOMAIN operations
           base == [state |-> parent, seen |-> {}, refused |-> FALSE]
           e == [s \in SUBSET D |-> Effect(parent, operations, s)]
<1>1. Effect(parent, operations, {}) = base
  <2>1. Result(parent, operations, {}) = parent
    BY DEF Result, Applicable
  <2>2. QED
    BY <2>1 DEF Effect
<1>2. \A s \in SUBSET D : s # {} => Max(s) \in s /\ Max(s) \in D
  <2>1. SUFFICES ASSUME NEW s \in SUBSET D, s # {} PROVE Max(s) \in s
    OBVIOUS
  <2>2. IsFiniteSet(D) /\ s \subseteq Int
    BY FS_Interval
  <2>3. IsFiniteSet(s)
    BY <2>2, FS_Subset
  <2>4. QED
    BY <2>1, <2>2, <2>3, MaxIsIn
<1>3. \A s \in SUBSET D : s # {} =>
        ApplyOperation(Effect(parent, operations, s \ {Max(s)}),
                       operations[Max(s)])
        = Effect(parent, operations, s)
  <2>1. SUFFICES ASSUME NEW s \in SUBSET D, s # {}
                 PROVE  ApplyOperation(Effect(parent, operations, s \ {Max(s)}),
                                       operations[Max(s)])
                        = Effect(parent, operations, s)
    OBVIOUS
  <2>2. Max(s) \in s /\ Max(s) \in D
    BY <1>2, <2>1
  <2>3. (s \ {Max(s)}) \cup {Max(s)} = s /\ s \ {Max(s)} \in SUBSET D
    BY <2>2
  <2>4. QED
    BY <2>2, <2>3, OneMore
<1>4. InOrder(parent, operations, D, e)
  <2>1. \A s \in SUBSET D : s # {} =>
            e[s \ {Max(s)}] = Effect(parent, operations, s \ {Max(s)})
    OBVIOUS
  <2>2. \A s \in SUBSET D :
            e[s] = IF s = {} THEN base
                   ELSE ApplyOperation(e[s \ {Max(s)}], operations[Max(s)])
    BY <1>1, <1>3, <2>1
  <2>3. e = [s \in SUBSET D |-> e[s]]
    OBVIOUS
  <2> HIDE DEF e, D
  <2>4. e = [s \in SUBSET D |->
                IF s = {} THEN base
                ELSE ApplyOperation(e[s \ {Max(s)}], operations[Max(s)])]
    BY <2>2, <2>3
  <2>5. QED
    BY <2>4 DEF InOrder
<1> DEFINE g == CHOOSE g : InOrder(parent, operations, D, g)
           T == {s \in SUBSET D : g[s] = Effect(parent, operations, s)}
<1>5. InOrder(parent, operations, D, g)
    BY <1>4
<1>6. \A s \in SUBSET D :
            g[s] = IF s = {} THEN base
                   ELSE ApplyOperation(g[s \ {Max(s)}], operations[Max(s)])
  <2> HIDE DEF g, D
  <2>1. QED
    BY <1>5 DEF InOrder
<1>7. {} \in T
    BY <1>1, <1>6
<1>8. ASSUME NEW t \in SUBSET D, t # {}, \A u \in SUBSET t : u # t => u \in T
      PROVE  t \in T
  <2>1. Max(t) \in t
    BY <1>2, <1>8
  <2>2. t \ {Max(t)} \in T
    BY <1>8, <2>1
  <2>3. g[t \ {Max(t)}] = Effect(parent, operations, t \ {Max(t)})
    BY <2>2
  <2>4. g[t] = Effect(parent, operations, t)
    <3> HIDE DEF g
    <3>1. QED
        BY <1>3, <1>6, <1>8, <2>3
  <2>5. QED
    BY <2>4
<1>9. D \in T
  <2>1. IsFiniteSet(D)
    BY FS_Interval
  <2> HIDE DEF T, D
  <2>2. QED
    BY <1>7, <1>8, <2>1, SetBySet
<1>10. g[D] = Effect(parent, operations, D)
    BY <1>9
<1>11. QED
    BY <1>10, ApplyUnfolds
-----------------------------------------------------------------------------
(* The invariants.                                                          *)

\* The values of all kinds of fields.
Values == Locations \cup ThreadStatuses \cup Seq(Nat)

\* Each field keeps to the values of its kind.
States ==
    {s \in [Fields -> Values] :
        /\ \A c \in Characters : s[Place(c)] \in Locations
        /\ \A t \in Threads : s[Status(t)] \in ThreadStatuses
        /\ s[EventOrder] \in Seq(Nat)}

\* What evidence is about, and the operations of a continuity.
Targets == {Target(f) : f \in Fields}
Operations == Fields \X Values \X Values \X (SUBSET (1 .. MaxOperations))

\* Every document is of its kind, and there is one Generation more than scenes.
Typed ==
    /\ generations \in
            Seq([state : States, evidence : Seq([scene : Nat, target : Targets])])
    /\ scenes \in Seq([participants : SUBSET Characters,
                       operations : Seq(Operations), evidence : Seq(Targets)])
    /\ card \in [participants : SUBSET Characters, allowed : SUBSET Fields]
    /\ continuity \in [operations : Seq(Operations), evidence : Seq(Targets)]
    /\ handoffs \in Seq([basis : Nat, resolved : SUBSET Threads,
                         open : SUBSET Threads, requirements : BOOLEAN])
    /\ Len(generations) = Len(scenes) + 1

\* What a continuity is to scene n on a parent state.
Sound(n, parent, participants, operations, evidence) ==
    /\ NotTwice(operations)
    /\ CitesEvidence(operations, evidence)
    /\ \A i \in DOMAIN operations :
        LET f == FieldOf(operations[i])
            old == OldOf(operations[i])
            new == NewOf(operations[i])
        IN /\ old = parent[f] /\ new # old
           /\ \/ f[1] = "character_state" /\ new \in Locations
              \/ f[1] = "thread_state" /\ new \in ThreadStatuses
              \/ f[1] = "timeline_state" /\ new = Append(old, n)
           /\ f[1] = "character_state" => f[2] \in participants
           /\ CitedBy(operations[i]) # {}

\* How far the run is, and what it holds for the scene in work.
Staged ==
    /\ pc \in {"card", "continuity", "commit", "handoff", "completion", "done"}
    /\ Len(scenes) <= SceneCount
    /\ pc \in {"card", "continuity", "commit"} => Len(scenes) < SceneCount
    /\ pc \in {"completion", "done"} => Len(scenes) = SceneCount
    /\ pc \in {"continuity", "commit"} =>
            ValidCard(card.participants, card.allowed)
    /\ pc = "commit" =>
            Sound(Scene, Current.state, card.participants,
                  continuity.operations, continuity.evidence)

\* Every Generation is the one before it with the operations of its scene.
Accounted ==
    \A n \in 1 .. Len(scenes) :
        LET s == scenes[n] IN
        /\ Sound(n, generations[n].state, s.participants, s.operations,
                 s.evidence)
        /\ generations[n + 1].state =
                Result(generations[n].state, s.operations, DOMAIN s.operations)
        /\ generations[n + 1].evidence =
                generations[n].evidence
                    \o [i \in DOMAIN s.evidence |->
                            [scene |-> n, target |-> s.evidence[i]]]

\* The scenes tell the state, and the order of events that of the scenes.
Told ==
    \A n \in 1 .. Len(scenes) : \A f \in Fields :
        generations[n + 1].state[f] = LastWritten(n, f)

\* Events in the order of reading, of the first n scenes only.
Increasing(events, n) ==
    /\ \A i, j \in DOMAIN events : i < j => events[i] < events[j]
    /\ Range(events) \subseteq 1 .. n

\* So they are in every Generation.
Ordered ==
    \A n \in 0 .. Len(scenes) :
        Increasing(generations[n + 1].state[EventOrder], n)

\* What makes a resolved thread resolved.
ResolvedBy(s, t) ==
    \E o \in Writes(s, Status(t)) :
        /\ NewOf(o) = "resolved"
        /\ Target(Status(t)) \in {scenes[s].evidence[e] : e \in CitedBy(o)}

\* A resolved thread was resolved by a scene that quotes its text for it, and
\* no later scene wrote it.
Grounded ==
    \A t \in Threads : Current.state[Status(t)] = "resolved" =>
        \E s \in 1 .. Len(scenes) :
            /\ ResolvedBy(s, t)
            /\ \A r \in s + 1 .. Len(scenes) : Writes(r, Status(t)) = {}

\* The last handoff and the verdict are true to the last Generation.
Judged ==
    /\ pc \in {"completion", "done"} =>
            handoffs # <<>>
            /\ handoffs[Len(handoffs)].resolved =
                    {t \in Threads : Current.state[Status(t)] = "resolved"}
            /\ handoffs[Len(handoffs)].basis = Len(generations)
    /\ pc = "done" /\ verdict.status # "incomplete" =>
            \A t \in Required : Current.state[Status(t)] = "resolved"

\* The inductive invariant.
Inv == Typed /\ Staged /\ Accounted /\ Told /\ Ordered /\ Grounded /\ Judged
-----------------------------------------------------------------------------
(* Fields, and what a sound continuity does to them.                        *)

\* The kinds of fields, told apart by their first component.
LEMMA FieldKinds ==
    /\ \A c \in Characters : /\ Place(c) \in Fields
                             /\ Place(c)[1] = "character_state"
                             /\ Place(c)[2] = c
    /\ \A t \in Threads : /\ Status(t) \in Fields
                          /\ Status(t)[1] = "thread_state"
                          /\ Status(t)[2] = t
    /\ EventOrder \in Fields /\ EventOrder[1] = "timeline_state"
    /\ \A f \in Fields : \/ \E c \in Characters : f = Place(c)
                         \/ \E t \in Threads : f = Status(t)
                         \/ f = EventOrder
BY DEF Fields, Place, Status, EventOrder

\* An operation is typed in its four parts.
LEMMA PartsOfOperations ==
    \A o \in Operations :
        /\ FieldOf(o) \in Fields /\ OldOf(o) \in Values /\ NewOf(o) \in Values
        /\ CitedBy(o) \subseteq 1 .. MaxOperations
BY DEF Operations, FieldOf, OldOf, NewOf, CitedBy

\* Where a field is written, by one operation at most, and where it is not.
LEMMA ResultAt ==
    ASSUME NEW parent, NEW operations, NotTwice(operations),
           NEW f \in DOMAIN parent
    PROVE  LET r == Result(parent, operations, DOMAIN operations) IN
           /\ \A i \in DOMAIN operations :
                FieldOf(operations[i]) = f => r[f] = NewOf(operations[i])
           /\ (\A i \in DOMAIN operations : FieldOf(operations[i]) # f)
                => r[f] = parent[f]
<1> DEFINE D == DOMAIN operations
           r == Result(parent, operations, D)
<1>1. ASSUME NEW i \in D, FieldOf(operations[i]) = f
      PROVE  r[f] = NewOf(operations[i])
  <2>1. \A j \in D : FieldOf(operations[j]) = f <=> j = i
    BY <1>1 DEF NotTwice, IsInjective
  <2>2. (CHOOSE j \in D : FieldOf(operations[j]) = f) = i
    BY <2>1
  <2>3. QED
    BY <1>1, <2>2 DEF Result
<1>2. ASSUME \A i \in D : FieldOf(operations[i]) # f
      PROVE  r[f] = parent[f]
    BY <1>2 DEF Result
<1>3. QED
    BY <1>1, <1>2

\* A sound continuity is applied whole.
LEMMA SoundIsApplied ==
    ASSUME NEW n, NEW parent \in States, NEW participants,
           NEW operations \in Seq(Operations), NEW evidence,
           Sound(n, parent, participants, operations, evidence)
    PROVE  Apply(parent, operations)
            = Effect(parent, operations, DOMAIN operations)
<1>1. DOMAIN parent = Fields /\ parent = [f \in DOMAIN parent |-> parent[f]]
    BY DEF States
<1>2. \A i \in DOMAIN operations : operations[i] \in Operations
    OBVIOUS
<1>3. \A i \in DOMAIN operations :
            /\ FieldOf(operations[i]) \in DOMAIN parent
            /\ OldOf(operations[i]) = parent[FieldOf(operations[i])]
            /\ NewOf(operations[i]) # OldOf(operations[i])
    BY <1>1, <1>2, PartsOfOperations DEF Sound
<1>4. Applicable(parent, operations)
    BY <1>1, <1>3 DEF Applicable, Sound
<1>5. Len(operations) \in Nat /\ DOMAIN operations = 1 .. Len(operations)
    OBVIOUS
<1>6. QED
    BY <1>4, <1>5, ApplyIs

\* The result keeps each field to the values of its kind.
LEMMA ResultIsAState ==
    ASSUME NEW n \in Nat, NEW parent \in States, NEW participants,
           NEW operations \in Seq(Operations), NEW evidence,
           Sound(n, parent, participants, operations, evidence)
    PROVE  Result(parent, operations, DOMAIN operations) \in States
<1> DEFINE D == DOMAIN operations
           r == Result(parent, operations, D)
           F(i) == FieldOf(operations[i])
<1>1. /\ parent \in [Fields -> Values] /\ DOMAIN parent = Fields
      /\ \A c \in Characters : parent[Place(c)] \in Locations
      /\ \A t \in Threads : parent[Status(t)] \in ThreadStatuses
      /\ parent[EventOrder] \in Seq(Nat)
    BY DEF States
<1>2. \A i \in D : operations[i] \in Operations
    OBVIOUS
<1>3. NotTwice(operations)
    BY DEF Sound
<1>4. ASSUME NEW f \in Fields
      PROVE  r[f] = parent[f] \/ \E i \in D : F(i) = f /\ r[f] = NewOf(operations[i])
    BY <1>1, <1>3, ResultAt
<1>5. \A f \in Fields : r[f] \in Values
    BY <1>1, <1>2, <1>4, PartsOfOperations
<1>6. \A i \in D :
        /\ F(i)[1] = "character_state" => NewOf(operations[i]) \in Locations
        /\ F(i)[1] = "thread_state" => NewOf(operations[i]) \in ThreadStatuses
        /\ F(i)[1] = "timeline_state" =>
                NewOf(operations[i]) = Append(parent[F(i)], n)
    BY DEF Sound
<1> HIDE DEF r, F, D
<1>7. ASSUME NEW c \in Characters PROVE r[Place(c)] \in Locations
  <2>1. Place(c) \in Fields /\ Place(c)[1] = "character_state"
    BY FieldKinds
  <2>2. QED
    BY <1>1, <1>4, <1>6, <2>1
<1>8. ASSUME NEW t \in Threads PROVE r[Status(t)] \in ThreadStatuses
  <2>1. Status(t) \in Fields /\ Status(t)[1] = "thread_state"
    BY FieldKinds
  <2>2. QED
    BY <1>1, <1>4, <1>6, <2>1
<1>9. r[EventOrder] \in Seq(Nat)
  <2>1. Append(parent[EventOrder], n) \in Seq(Nat)
    BY <1>1
  <2>2. EventOrder \in Fields /\ EventOrder[1] = "timeline_state"
    BY FieldKinds
  <2>3. QED
    BY <1>1, <1>4, <1>6, <2>1, <2>2
<1>10. r = [f \in Fields |-> r[f]]
    BY <1>1 DEF Result, r
<1>11. r \in [Fields -> Values]
    BY <1>5, <1>10
<1>12. QED
    BY <1>7, <1>8, <1>9, <1>11 DEF States, r, D

\* What typed sequences hold.
LEMMA TypedAt ==
    ASSUME Typed
    PROVE  /\ Len(scenes) \in Nat /\ Len(generations) = Len(scenes) + 1
           /\ \A k \in 1 .. Len(generations) :
                /\ generations[k].state \in States
                /\ generations[k].evidence \in Seq([scene : Nat, target : Targets])
           /\ \A k \in 1 .. Len(scenes) :
                /\ scenes[k].operations \in Seq(Operations)
                /\ scenes[k].evidence \in Seq(Targets)
                /\ scenes[k].participants \subseteq Characters
           /\ continuity.operations \in Seq(Operations)
           /\ continuity.evidence \in Seq(Targets)
<1> DEFINE G == [state : States, evidence : Seq([scene : Nat, target : Targets])]
           S == [participants : SUBSET Characters,
                 operations : Seq(Operations), evidence : Seq(Targets)]
<1>1. generations \in Seq(G) /\ scenes \in Seq(S)
      /\ Len(generations) = Len(scenes) + 1
    BY DEF Typed
<1>2. /\ continuity.operations \in Seq(Operations)
      /\ continuity.evidence \in Seq(Targets)
    BY DEF Typed
<1>3. /\ \A g \in G : /\ g.state \in States
                       /\ g.evidence \in Seq([scene : Nat, target : Targets])
      /\ \A s \in S : /\ s.operations \in Seq(Operations)
                       /\ s.evidence \in Seq(Targets)
                       /\ s.participants \subseteq Characters
    OBVIOUS
<1> HIDE DEF G, S
<1>4. /\ \A k \in 1 .. Len(generations) : generations[k] \in G
      /\ \A k \in 1 .. Len(scenes) : scenes[k] \in S
      /\ Len(scenes) \in Nat
    BY <1>1
<1>5. QED
    BY <1>1, <1>2, <1>3, <1>4

\* At the commit the adopted continuity is sound, so nothing of it is refused.
LEMMA CommitAccepts ==
    ASSUME Typed, Staged, pc = "commit"
    PROVE  /\ Current.state \in States /\ Len(scenes) + 1 \in 1 .. SceneCount
           /\ Apply(Current.state, continuity.operations)
                = Effect(Current.state, continuity.operations,
                         DOMAIN continuity.operations)
           /\ ~CommitRefused
<1>1. /\ Len(scenes) \in Nat /\ Len(generations) = Len(scenes) + 1
      /\ Len(generations) \in 1 .. Len(generations)
    BY TypedAt
<1>2. Current.state \in States
    BY <1>1, TypedAt DEF Current
<1>3. /\ continuity.operations \in Seq(Operations)
      /\ Sound(Scene, Current.state, card.participants,
               continuity.operations, continuity.evidence)
      /\ Len(scenes) < SceneCount
    BY TypedAt DEF Staged
<1>4. Apply(Current.state, continuity.operations)
        = Effect(Current.state, continuity.operations,
                 DOMAIN continuity.operations)
    BY <1>2, <1>3, SoundIsApplied
<1>5. Linked(continuity)
    BY <1>3 DEF Sound, CitesEvidence, Linked
<1>6. ~Apply(Current.state, continuity.operations).refused
    BY <1>4 DEF Effect
<1>7. QED
    BY <1>1, <1>2, <1>3, <1>4, <1>5, <1>6, StoryAssumption DEF CommitRefused
-----------------------------------------------------------------------------
(* The stages that leave the Generations alone.                             *)

\* The story starts with everybody somewhere and no thread resolved.
LEMMA InitInv == Init => Inv
<1> SUFFICES ASSUME Init PROVE Inv
    OBVIOUS
<1>1. PICK s \in InitialStates : generations = <<[state |-> s, evidence |-> <<>>]>>
    BY DEF Init
<1>2. PICK home \in {CHOOSE l \in Locations : TRUE},
           status \in [Threads -> {"planned", "open"}] :
        s = [f \in Fields |->
                IF f = EventOrder THEN <<>>
                ELSE IF f[1] = "character_state" THEN home ELSE status[f[2]]]
    BY DEF InitialStates
<1>3. home \in Locations
    BY <1>2, StoryAssumption
<1>4. ASSUME NEW c \in Characters PROVE s[Place(c)] = home
  <2>1. Place(c) \in Fields /\ Place(c) # EventOrder
        /\ Place(c)[1] = "character_state"
    BY FieldKinds
  <2>2. QED
    BY <1>2, <2>1
<1>5. ASSUME NEW t \in Threads PROVE s[Status(t)] = status[t]
  <2>1. /\ Status(t) \in Fields /\ Status(t) # EventOrder
        /\ Status(t)[1] = "thread_state" /\ Status(t)[2] = t
    BY FieldKinds
  <2>2. QED
    BY <1>2, <2>1
<1>6. s[EventOrder] = <<>>
    BY <1>2, FieldKinds
<1>7. s \in States
  <2>1. \A t \in Threads : s[Status(t)] \in ThreadStatuses
    BY <1>2, <1>5 DEF ThreadStatuses
  <2>2. <<>> \in Seq(Nat)
    OBVIOUS
  <2>3. ASSUME NEW f \in Fields PROVE s[f] \in Values
    <3>1. CASE \E c \in Characters : f = Place(c)
        BY <1>3, <1>4, <3>1 DEF Values
    <3>2. CASE \E t \in Threads : f = Status(t)
        BY <2>1, <3>2 DEF Values
    <3>3. CASE f = EventOrder
        BY <1>6, <2>2, <3>3 DEF Values
    <3>4. QED
        BY <3>1, <3>2, <3>3, FieldKinds
  <2>4. s = [f \in Fields |-> s[f]]
    BY <1>2
  <2>5. s \in [Fields -> Values]
    BY <2>3, <2>4
  <2>6. QED
    BY <1>3, <1>4, <1>6, <2>1, <2>2, <2>5 DEF States
<1>8. /\ scenes = <<>> /\ Len(scenes) = 0 /\ handoffs = <<>>
      /\ Len(generations) = 1 /\ generations[1].state = s
      /\ Current.state = s /\ pc = "card"
    BY <1>1 DEF Init, Current
<1>9. Typed
  <2>1. [state |-> s, evidence |-> <<>>] \in
            [state : States, evidence : Seq([scene : Nat, target : Targets])]
    BY <1>7
  <2>2. generations \in
            Seq([state : States, evidence : Seq([scene : Nat, target : Targets])])
    BY <1>1, <2>1
  <2>3. card = NoCard /\ continuity = NoContinuity
    BY DEF Init
  <2>4. QED
    BY <1>8, <2>2, <2>3 DEF Typed, NoCard, NoContinuity
<1>10. Staged
    BY <1>8, StoryAssumption DEF Staged
<1>11. Accounted /\ Told
    BY <1>8 DEF Accounted, Told
<1>12. Ordered
    BY <1>6, <1>8 DEF Ordered, Increasing, Range
<1>13. Grounded /\ Judged
    BY <1>2, <1>5, <1>8 DEF Grounded, Judged
<1>14. QED
    BY <1>9, <1>10, <1>11, <1>12, <1>13 DEF Inv

\* What scenes that stay tell of a field stays.
LEMMA WrittenStays ==
    ASSUME NEW n \in Nat, NEW f, \A s \in 1 .. n : scenes'[s] = scenes[s],
           generations'[1] = generations[1]
    PROVE  /\ \A s \in 1 .. n : Writes(s, f)' = Writes(s, f)
           /\ LastWritten(n, f)' = LastWritten(n, f)
<1>1. \A s \in 1 .. n : Writes(s, f)' = Writes(s, f)
    BY DEF Writes
<1> DEFINE writers == {s \in 1 .. n : Writes(s, f) # {}}
           last == CHOOSE s \in writers : \A r \in writers : r <= s
<1>2. writers' = writers
    BY <1>1
<1>3. last' = last
    BY <1>2
<1>4. writers # {} => last \in 1 .. n
  <2>1. SUFFICES ASSUME writers # {} PROVE last \in 1 .. n
    OBVIOUS
  <2>2. IsFiniteSet(writers) /\ writers \in SUBSET Int
    <3>1. IsFiniteSet(1 .. n) /\ writers \subseteq 1 .. n
        BY FS_Interval
    <3> HIDE DEF writers
    <3>2. IsFiniteSet(writers)
        BY <3>1, FS_Subset
    <3>3. 1 .. n \subseteq Int
        OBVIOUS
    <3>4. QED
        BY <3>1, <3>2, <3>3
  <2>3. Max(writers) \in writers /\ \A r \in writers : r <= Max(writers)
    <3> HIDE DEF writers
    <3>1. QED
        BY <2>1, <2>2, MaxIsIn
  <2>4. last \in writers
    BY <2>3
  <2>5. QED
    BY <2>4
<1>5. writers # {} =>
        (NewOf(CHOOSE o \in Writes(last, f) : TRUE))'
            = NewOf(CHOOSE o \in Writes(last, f) : TRUE)
  <2>1. SUFFICES ASSUME writers # {}
        PROVE  (CHOOSE o \in Writes(last, f) : TRUE)'
                = CHOOSE o \in Writes(last, f) : TRUE
    BY DEF NewOf
  <2>2. PICK k \in 1 .. n : k = last
    BY <1>4, <2>1
  <2> HIDE DEF last
  <2>3. Writes(last, f)' = Writes(k, f)'
    BY <1>3, <2>2 DEF Writes
  <2>4. QED
    BY <1>1, <2>2, <2>3
<1>6. QED
    BY <1>1, <1>2, <1>3, <1>5 DEF LastWritten

\* Generations and scenes that stay tell what they told.
LEMMA StoryStays ==
    ASSUME Accounted, Told, Ordered, Grounded, UNCHANGED <<generations, scenes>>
    PROVE  Accounted' /\ Told' /\ Ordered' /\ Grounded'
<1>1. \A s, f : Writes(s, f)' = Writes(s, f)
    BY DEF Writes
<1>2. Accounted' /\ Ordered'
    BY DEF Accounted, Ordered
<1>3. Told'
  <2>1. \A n \in 1 .. Len(scenes) : \A f : LastWritten(n, f)' = LastWritten(n, f)
    BY WrittenStays
  <2>2. QED
    BY <2>1 DEF Told
<1>4. Grounded'
    BY DEF Grounded, Current, ResolvedBy, Writes
<1>5. QED
    BY <1>2, <1>3, <1>4

\* The Scene Card.
LEMMA CardKeeps ==
    ASSUME Inv, AdoptCard
    PROVE  Inv'
<1>0. /\ pc = "card" /\ pc' = "continuity" /\ ValidCard(card.participants, card.allowed)'
      /\ card' \in [participants : SUBSET Characters, allowed : SUBSET Fields]
      /\ UNCHANGED <<generations, continuity, scenes, handoffs, verdict>>
    BY DEF AdoptCard, ValidCard, Current
<1>1. Typed'
    BY <1>0 DEF Inv, Typed
<1>2. Staged'
    BY <1>0 DEF Inv, Staged
<1>3. Judged'
    BY <1>0 DEF Judged
<1>4. QED
    BY <1>0, <1>1, <1>2, <1>3, StoryStays DEF Inv

\* The Continuity Update: a value the contract lets through is one of its kind.
LEMMA ContinuityKeeps ==
    ASSUME Inv, AdoptContinuity
    PROVE  Inv'
<1>0. /\ pc = "continuity" /\ pc' = "commit" /\ Typed /\ Staged
      /\ UNCHANGED <<generations, card, scenes, handoffs, verdict>>
    BY DEF AdoptContinuity, Inv
<1> DEFINE Offered == {o \in OfferedOperations : ValidOperation(o)}
<1>1. PICK operations \in SeqOf(Offered, MaxOperations),
           evidence \in SeqOf({Target(f) : f \in Fields}, MaxOperations) :
        /\ NotTwice(operations) /\ CitesEvidence(operations, evidence)
        /\ continuity' = [operations |-> operations, evidence |-> evidence]
    BY DEF AdoptContinuity
<1>2. /\ Len(scenes) \in Nat /\ Scene = Len(scenes) + 1
      /\ Current.state \in States
    BY <1>0, TypedAt DEF Scene, Current
<1>3. ASSUME NEW o \in Offered
      PROVE  /\ o \in Operations /\ CitedBy(o) # {}
             /\ FieldOf(o) \in card.allowed
             /\ OldOf(o) = Current.state[FieldOf(o)] /\ NewOf(o) # OldOf(o)
             /\ ValidNewValue(FieldOf(o), OldOf(o), NewOf(o))
  <2>1. PICK f \in Fields :
            o \in {f} \X OldValues(f) \X NewValues(f)
                    \X ((SUBSET (1 .. MaxOperations)) \ {{}})
    BY DEF OfferedOperations
  <2>2. /\ FieldOf(o) = f
        /\ CitedBy(o) \in SUBSET (1 .. MaxOperations) /\ CitedBy(o) # {}
        /\ o = <<FieldOf(o), OldOf(o), NewOf(o), CitedBy(o)>>
    <3>1. PICK old \in OldValues(f), new \in NewValues(f),
               cited \in (SUBSET (1 .. MaxOperations)) \ {{}} :
            o = <<f, old, new, cited>>
        BY <2>1
    <3>2. QED
        BY <3>1 DEF FieldOf, OldOf, NewOf, CitedBy
  <2>3. /\ FieldOf(o) \in card.allowed
        /\ OldOf(o) = Current.state[f] /\ NewOf(o) # OldOf(o)
        /\ ValidNewValue(f, OldOf(o), NewOf(o))
    BY <2>2 DEF ValidOperation
  <2>4. OldOf(o) \in Values /\ (f = EventOrder => OldOf(o) \in Seq(Nat))
    BY <1>2, <2>3 DEF States
  <2>5. f[1] = "timeline_state" => f = EventOrder
    BY FieldKinds
  <2>6. Scene \in Nat
    BY <1>2
  <2>7. OldOf(o) \in Seq(Nat) => Append(OldOf(o), Scene) \in Seq(Nat)
    BY <2>6
  <2>8. NewOf(o) \in Values
    BY <2>3, <2>4, <2>5, <2>7 DEF ValidNewValue, Values
  <2>9. o \in Operations
    BY <2>2, <2>4, <2>8 DEF Operations
  <2>10. QED
    BY <2>2, <2>3, <2>9
<1>4. operations \in Seq(Offered) /\ evidence \in Seq(Targets)
    BY DEF SeqOf, Targets
<1>5. /\ operations \in Seq(Operations)
      /\ \A i \in DOMAIN operations : operations[i] \in Offered
  <2>1. Offered \subseteq Operations
    BY <1>3
  <2> HIDE DEF Offered
  <2>2. QED
    BY <1>4, <2>1
<1>6. \A f \in card.allowed : f[1] = "character_state" => f[2] \in card.participants
    BY <1>0 DEF Staged, ValidCard
<1>7. Sound(Scene, Current.state, card.participants, operations, evidence)
  <2>1. ASSUME NEW i \in DOMAIN operations
        PROVE  LET f == FieldOf(operations[i])
                   old == OldOf(operations[i])
                   new == NewOf(operations[i])
               IN /\ old = Current.state[f] /\ new # old
                  /\ \/ f[1] = "character_state" /\ new \in Locations
                     \/ f[1] = "thread_state" /\ new \in ThreadStatuses
                     \/ f[1] = "timeline_state" /\ new = Append(old, Scene)
                  /\ f[1] = "character_state" => f[2] \in card.participants
                  /\ CitedBy(operations[i]) # {}
    <3>1. operations[i] \in Offered
        BY <1>5
    <3> HIDE DEF Offered
    <3>2. QED
        BY <1>3, <1>6, <3>1 DEF ValidNewValue
  <2>2. QED
    BY <1>1, <2>1 DEF Sound
<1>8. continuity' \in [operations : Seq(Operations), evidence : Seq(Targets)]
    BY <1>1, <1>4, <1>5
<1>9. Typed'
    BY <1>0, <1>8 DEF Typed
<1>10. Staged'
  <2>1. Sound(Scene, Current.state, card.participants, continuity.operations,
              continuity.evidence)'
    BY <1>0, <1>1, <1>7 DEF Scene, Current, Sound, NotTwice, CitesEvidence
  <2>2. ValidCard(card.participants, card.allowed)'
    BY <1>0 DEF Staged, ValidCard, Current
  <2>3. QED
    BY <1>0, <2>1, <2>2 DEF Staged
<1>11. Judged'
    BY <1>0 DEF Judged
<1>12. QED
    BY <1>0, <1>9, <1>10, <1>11, StoryStays DEF Inv

\* The Volume Handoff.
LEMMA HandoffKeeps ==
    ASSUME Inv, AdoptHandoff
    PROVE  Inv'
<1> DEFINE H == [basis : Nat, resolved : SUBSET Threads, open : SUBSET Threads,
                 requirements : BOOLEAN]
<1>0. /\ pc = "handoff" /\ Typed /\ Staged
      /\ pc' = IF Len(scenes) < SceneCount THEN "card" ELSE "completion"
      /\ UNCHANGED <<generations, card, continuity, scenes, verdict>>
    BY DEF AdoptHandoff, Inv
<1>1. PICK h \in [basis : {Len(generations)}, resolved : SUBSET Threads,
                  open : SUBSET Threads, requirements : BOOLEAN] :
        ValidHandoff(h) /\ handoffs' = Append(handoffs, h)
    BY DEF AdoptHandoff
<1>2. Len(generations) \in Nat /\ Len(scenes) \in Nat
    BY <1>0, TypedAt
<1>3. h \in H /\ h.basis = Len(generations)
    BY <1>2
<1>4. handoffs \in Seq(H)
    BY <1>0 DEF Typed
<1>5. /\ handoffs' \in Seq(H) /\ handoffs' # <<>>
      /\ handoffs'[Len(handoffs')] = h
  <2> HIDE DEF H
  <2>1. QED
    BY <1>1, <1>3, <1>4
<1>6. Typed'
    BY <1>0, <1>5 DEF Typed
<1>7. Staged'
  <2>1. Len(scenes) <= SceneCount /\ SceneCount \in Nat
    BY <1>0, StoryAssumption DEF Staged
  <2>2. CASE Len(scenes) < SceneCount
    BY <1>0, <2>1, <2>2 DEF Staged
  <2>3. CASE ~(Len(scenes) < SceneCount)
    BY <1>0, <1>2, <2>1, <2>3 DEF Staged
  <2>4. QED
    BY <2>2, <2>3
<1>8. Judged'
  <2>1. h.resolved = {t \in Threads : Current.state[Status(t)] = "resolved"}
    BY <1>1 DEF ValidHandoff
  <2>2. pc' \in {"card", "completion"}
    BY <1>0
  <2>3. QED
    BY <1>0, <1>3, <1>5, <2>1, <2>2 DEF Judged, Current
<1>9. QED
    BY <1>0, <1>6, <1>7, <1>8, StoryStays DEF Inv

\* The Completion.
LEMMA CompletionKeeps ==
    ASSUME Inv, AdoptCompletion
    PROVE  Inv'
<1>0. /\ pc = "completion" /\ pc' = "done" /\ Typed /\ Staged /\ Judged
      /\ UNCHANGED <<generations, card, continuity, scenes, handoffs>>
    BY DEF AdoptCompletion, Inv
<1>1. PICK j \in {j \in Judgements : ValidChecks(j)}, v \in Verdicts,
           issues \in BOOLEAN :
        /\ ValidVerdict(v, j, issues)
        /\ verdict' = [status |-> v, threads |-> j.threads]
    BY DEF AdoptCompletion
<1>2. v # "incomplete" => \A t \in Required : Current.state[Status(t)] = "resolved"
  <2>1. SUFFICES ASSUME v # "incomplete" PROVE ~Blocking(j)
    BY <1>1 DEF ValidChecks, Blocking
  <2>2. CASE v = "complete"
    BY <1>1, <2>2 DEF ValidVerdict
  <2>3. CASE v = "complete_with_issues"
    BY <1>1, <2>3 DEF ValidVerdict
  <2>4. QED
    BY <2>1, <2>2, <2>3 DEF Verdicts
<1>3. Typed'
    BY <1>0 DEF Typed
<1>4. Staged'
    BY <1>0 DEF Staged
<1>5. Judged'
    BY <1>0, <1>1, <1>2 DEF Judged, Current
<1>6. QED
    BY <1>0, <1>3, <1>4, <1>5, StoryStays DEF Inv
-----------------------------------------------------------------------------
(* The commit.                                                              *)

\* The commit adds scene n, and one Generation made by its operations.
Adds(n) ==
    /\ n \in 1 .. SceneCount /\ Len(scenes) = n - 1 /\ Len(scenes') = n
    /\ Len(generations) = n /\ Len(generations') = n + 1
    /\ \A k \in 1 .. n - 1 : scenes'[k] = scenes[k]
    /\ \A k \in 1 .. n : generations'[k] = generations[k]
    /\ Sound(n, generations[n].state, scenes'[n].participants,
             scenes'[n].operations, scenes'[n].evidence)
    /\ generations'[n + 1].state =
            Result(generations[n].state, scenes'[n].operations,
                   DOMAIN scenes'[n].operations)
    /\ generations'[n + 1].evidence =
            generations[n].evidence
                \o [i \in DOMAIN scenes'[n].evidence |->
                        [scene |-> n, target |-> scenes'[n].evidence[i]]]
    /\ generations[n].state \in States
    /\ generations[n].evidence \in Seq([scene : Nat, target : Targets])
    /\ scenes'[n].operations \in Seq(Operations)
    /\ scenes'[n].evidence \in Seq(Targets)

\* The commit adds the scene in work, and what its operations make of the
\* last Generation.
LEMMA CommitAdds ==
    ASSUME Inv, CommitScene, NEW n, n = Len(scenes) + 1
    PROVE  Adds(n) /\ Typed'
<1> DEFINE G == [state : States, evidence : Seq([scene : Nat, target : Targets])]
           S == [participants : SUBSET Characters,
                 operations : Seq(Operations), evidence : Seq(Targets)]
           s == [participants |-> card.participants,
                 operations |-> continuity.operations,
                 evidence |-> continuity.evidence]
           g == Successor(Current, continuity)
           links == [i \in DOMAIN continuity.evidence |->
                        [scene |-> n, target |-> continuity.evidence[i]]]
<1>0. Typed /\ Staged /\ pc = "commit"
    BY DEF Inv, CommitScene
<1>1. /\ Len(scenes) \in Nat /\ n \in Nat /\ n \in 1 .. SceneCount
      /\ Len(generations) = n /\ Scene = n /\ Current = generations[n]
      /\ Len(generations) \in Nat
    BY <1>0, CommitAccepts, TypedAt DEF Scene, Current
<1>2. /\ Current.state \in States
      /\ Apply(Current.state, continuity.operations)
            = Effect(Current.state, continuity.operations,
                     DOMAIN continuity.operations)
    BY <1>0, CommitAccepts
<1>3. /\ scenes' = Append(scenes, s) /\ generations' = Append(generations, g)
      /\ card' = NoCard /\ continuity' = NoContinuity /\ handoffs' = handoffs
    BY DEF CommitScene
<1>4. /\ continuity.operations \in Seq(Operations)
      /\ continuity.evidence \in Seq(Targets)
      /\ card.participants \subseteq Characters
    BY <1>0, TypedAt DEF Typed
<1>5. Current.evidence \in Seq([scene : Nat, target : Targets])
  <2>1. n \in 1 .. Len(generations)
    BY <1>1
  <2>2. generations[n].evidence \in Seq([scene : Nat, target : Targets])
    BY <1>0, <2>1, TypedAt
  <2>3. QED
    BY <1>1, <2>2
<1>6. Sound(n, Current.state, card.participants, continuity.operations,
            continuity.evidence)
    BY <1>0, <1>1 DEF Staged
<1>7. /\ g.state = Result(Current.state, continuity.operations,
                          DOMAIN continuity.operations)
      /\ g.evidence = Current.evidence \o links
      /\ g = [state |-> g.state, evidence |-> g.evidence]
  <2>1. g = [state |-> Apply(Current.state, continuity.operations).state,
             evidence |-> Current.evidence \o links]
    BY <1>1 DEF Successor
  <2>2. Apply(Current.state, continuity.operations).state
            = Result(Current.state, continuity.operations,
                     DOMAIN continuity.operations)
    BY <1>2 DEF Effect
  <2> HIDE DEF g, links
  <2>3. QED
    BY <2>1, <2>2
<1>8. g.state \in States
    BY <1>1, <1>2, <1>4, <1>6, <1>7, ResultIsAState
<1>9. links \in Seq([scene : Nat, target : Targets])
  <2> DEFINE L == [scene : Nat, target : Targets]
  <2>1. DOMAIN continuity.evidence = 1 .. Len(continuity.evidence)
        /\ Len(continuity.evidence) \in Nat
        /\ \A i \in 1 .. Len(continuity.evidence) : continuity.evidence[i] \in Targets
    <3> HIDE DEF L
    <3>1. QED
        BY <1>4
  <2>2. \A i \in DOMAIN continuity.evidence :
            [scene |-> n, target |-> continuity.evidence[i]] \in L
    BY <1>1, <2>1
  <2>3. links \in [1 .. Len(continuity.evidence) -> L]
    BY <2>1, <2>2
  <2>4. \A m \in Nat : \A h \in [1 .. m -> L] : h \in Seq(L)
    <3> HIDE DEF L
    <3>1. QED
        OBVIOUS
  <2> HIDE DEF L, links
  <2>5. links \in Seq(L)
    BY <2>1, <2>3, <2>4
  <2>6. QED
    BY <2>5 DEF L
<1>10. g \in G
  <2>1. g.evidence \in Seq([scene : Nat, target : Targets])
    <3> HIDE DEF g, links
    <3>1. QED
        BY <1>5, <1>7, <1>9
  <2> HIDE DEF g
  <2>2. QED
    BY <1>7, <1>8, <2>1
<1>11. s \in S
    BY <1>4
<1>12. scenes \in Seq(S) /\ generations \in Seq(G)
    BY <1>0 DEF Typed
<1>13. /\ scenes' \in Seq(S) /\ generations' \in Seq(G)
       /\ Len(scenes') = n /\ Len(generations') = n + 1
       /\ scenes'[n] = s /\ generations'[n + 1] = g
       /\ \A k \in 1 .. n - 1 : scenes'[k] = scenes[k]
       /\ \A k \in 1 .. n : generations'[k] = generations[k]
  <2> HIDE DEF S, G, s, g
  <2>1. QED
    BY <1>1, <1>3, <1>10, <1>11, <1>12
<1>14. Typed'
    BY <1>0, <1>3, <1>13 DEF Typed, NoCard, NoContinuity
<1>15. /\ scenes'[n].participants = card.participants
       /\ scenes'[n].operations = continuity.operations
       /\ scenes'[n].evidence = continuity.evidence
    BY <1>13
<1>16. QED
  <2> HIDE DEF g
  <2>1. /\ n \in 1 .. SceneCount /\ Len(scenes) = n - 1 /\ Len(scenes') = n
        /\ Len(generations) = n /\ Len(generations') = n + 1
        /\ generations[n].state \in States
        /\ generations[n].evidence \in Seq([scene : Nat, target : Targets])
    BY <1>1, <1>2, <1>5, <1>13
  <2>2. generations'[n + 1].evidence =
            generations[n].evidence
                \o [i \in DOMAIN scenes'[n].evidence |->
                        [scene |-> n, target |-> scenes'[n].evidence[i]]]
    BY <1>1, <1>7, <1>13, <1>15
  <2>3. /\ generations'[n + 1].state =
                Result(generations[n].state, scenes'[n].operations,
                       DOMAIN scenes'[n].operations)
        /\ Sound(n, generations[n].state, scenes'[n].participants,
                 scenes'[n].operations, scenes'[n].evidence)
        /\ scenes'[n].operations \in Seq(Operations)
        /\ scenes'[n].evidence \in Seq(Targets)
    BY <1>1, <1>4, <1>6, <1>7, <1>13, <1>15
  <2>4. QED
    BY <1>13, <1>14, <2>1, <2>2, <2>3 DEF Adds

\* The operations of a scene on a field are at most one, and the state tells it.
LEMMA WritesOne ==
    ASSUME NEW n, NEW operations, NotTwice(operations), NEW f,
           NEW i \in DOMAIN operations, FieldOf(operations[i]) = f
    PROVE  {o \in Range(operations) : FieldOf(o) = f} = {operations[i]}
<1>1. \A j \in DOMAIN operations : FieldOf(operations[j]) = f <=> j = i
    BY DEF NotTwice, IsInjective
<1>2. QED
    BY <1>1 DEF Range

\* The scenes tell the new Generation too.
LEMMA CommitTells ==
    ASSUME Typed, Told, NEW n, Adds(n)
    PROVE  Told'
<1> DEFINE s == scenes'[n]
           parent == generations[n].state
<1>1. /\ n \in Nat /\ n \in 1 .. SceneCount /\ n - 1 \in Nat
      /\ Len(scenes) = n - 1 /\ Len(scenes') = n
    BY StoryAssumption DEF Adds
<1>2. /\ \A k \in 1 .. n - 1 : scenes'[k] = scenes[k]
      /\ \A k \in 1 .. n : generations'[k] = generations[k]
      /\ NotTwice(s.operations)
      /\ generations'[n + 1].state =
            Result(parent, s.operations, DOMAIN s.operations)
      /\ DOMAIN parent = Fields
    BY DEF Adds, Sound, States
<1> HIDE DEF s, parent
<1>3. ASSUME NEW k \in 1 .. n - 1, NEW f
      PROVE  LastWritten(k, f)' = LastWritten(k, f)
  <2>1. /\ k \in Nat /\ \A r \in 1 .. k : scenes'[r] = scenes[r]
        /\ generations'[1] = generations[1]
    BY <1>1, <1>2
  <2>2. QED
    BY <2>1, WrittenStays
<1>4. ASSUME NEW f \in Fields
      PROVE  generations'[n + 1].state[f] = LastWritten(n, f)'
  <2> DEFINE w(k) == {o \in Range(scenes'[k].operations) : FieldOf(o) = f}
             writers == {r \in 1 .. n : w(r) # {}}
  <2>1. LastWritten(n, f)' =
            IF writers = {} THEN generations'[1].state[f]
            ELSE NewOf(CHOOSE o \in w(CHOOSE k \in writers :
                                        \A r \in writers : r <= k) : TRUE)
    BY DEF LastWritten, Writes
  <2>2. CASE \E i \in DOMAIN s.operations : FieldOf(s.operations[i]) = f
    <3>1. PICK i \in DOMAIN s.operations : FieldOf(s.operations[i]) = f
        BY <2>2
    <3>2. w(n) = {s.operations[i]}
        BY <1>2, <3>1, WritesOne DEF s
    <3>3. n \in writers /\ \A r \in writers : r <= n
        BY <1>1, <3>2
    <3>4. (CHOOSE k \in writers : \A r \in writers : r <= k) = n
      <4>1. \A k \in writers : (\A r \in writers : r <= k) => k = n
        BY <1>1, <3>3
      <4> HIDE DEF writers
      <4>2. QED
        BY <3>3, <4>1
    <3>5. (CHOOSE o \in w(n) : TRUE) = s.operations[i]
        BY <3>2
    <3>6. LastWritten(n, f)' = NewOf(s.operations[i])
      <4> HIDE DEF writers, w
      <4>1. QED
        BY <2>1, <3>3, <3>4, <3>5
    <3>7. QED
        BY <1>2, <3>1, <3>6, ResultAt
  <2>3. CASE \A i \in DOMAIN s.operations : FieldOf(s.operations[i]) # f
    <3>1. w(n) = {}
        BY <2>3 DEF Range, s
    <3>2. generations'[n + 1].state[f] = parent[f]
        BY <1>2, <2>3, ResultAt
    <3>3. writers = {r \in 1 .. n - 1 : w(r) # {}}
      <4>1. \A r \in 1 .. n : r # n <=> r \in 1 .. n - 1
        BY <1>1
      <4> HIDE DEF w
      <4>2. QED
        BY <1>1, <3>1, <4>1
    <3>4. CASE n = 1
      <4>1. writers = {}
        BY <3>3, <3>4
      <4>2. parent[f] = generations'[1].state[f]
        BY <1>1, <1>2, <3>4 DEF parent
      <4>3. QED
        BY <2>1, <3>2, <4>1, <4>2
    <3>5. CASE n # 1
      <4>1. n - 1 \in 1 .. Len(scenes) /\ (n - 1) + 1 = n /\ n - 1 \in 1 .. n - 1
        BY <1>1, <3>5
      <4>2. parent[f] = LastWritten(n - 1, f)
        BY <4>1 DEF Told, parent
      <4>3. LastWritten(n - 1, f)' = LastWritten(n - 1, f)
        BY <1>3, <4>1
      <4>4. LastWritten(n - 1, f)' =
            IF {r \in 1 .. n - 1 : w(r) # {}} = {} THEN generations'[1].state[f]
            ELSE NewOf(CHOOSE o \in w(CHOOSE k \in {r \in 1 .. n - 1 : w(r) # {}} :
                         \A r \in {r \in 1 .. n - 1 : w(r) # {}} : r <= k) : TRUE)
        BY DEF LastWritten, Writes
      <4> DEFINE old == {r \in 1 .. n - 1 : w(r) # {}}
      <4>5. LastWritten(n - 1, f)' = LastWritten(n, f)'
        <5>1. LastWritten(n - 1, f)' =
                IF old = {} THEN generations'[1].state[f]
                ELSE NewOf(CHOOSE o \in w(CHOOSE k \in old :
                                            \A r \in old : r <= k) : TRUE)
            BY <4>4
        <5>2. writers = old
            BY <3>3
        <5> HIDE DEF w, old, writers
        <5>3. QED
            BY <2>1, <5>1, <5>2
      <4> HIDE DEF w
      <4>6. QED
        BY <3>2, <4>2, <4>3, <4>5
    <3>6. QED
        BY <3>4, <3>5
  <2>4. QED
    BY <2>2, <2>3
<1>5. ASSUME NEW k \in 1 .. Len(scenes'), NEW f \in Fields
      PROVE  generations'[k + 1].state[f] = LastWritten(k, f)'
  <2>1. CASE k = n
    BY <1>4, <2>1
  <2>2. CASE k # n
    <3>1. k \in 1 .. n - 1 /\ k \in 1 .. Len(scenes) /\ k + 1 \in 1 .. n
        BY <1>1, <2>2
    <3>2. generations'[k + 1].state[f] = LastWritten(k, f)
        BY <1>2, <3>1 DEF Told
    <3>3. LastWritten(k, f)' = LastWritten(k, f)
        BY <1>3, <3>1
    <3>4. QED
        BY <3>2, <3>3
  <2>3. QED
    BY <2>1, <2>2
<1>6. QED
    BY <1>5 DEF Told

\* The new Generation is accounted for by its scene.
LEMMA CommitAccounts ==
    ASSUME Accounted, NEW n, Adds(n)
    PROVE  Accounted'
<1>1. /\ n \in Nat /\ Len(scenes) = n - 1 /\ Len(scenes') = n
      /\ \A k \in 1 .. n - 1 : scenes'[k] = scenes[k]
      /\ \A k \in 1 .. n : generations'[k] = generations[k]
    BY StoryAssumption DEF Adds
<1>2. SUFFICES ASSUME NEW k \in 1 .. Len(scenes')
      PROVE  /\ Sound(k, generations'[k].state, scenes'[k].participants,
                      scenes'[k].operations, scenes'[k].evidence)
             /\ generations'[k + 1].state =
                    Result(generations'[k].state, scenes'[k].operations,
                           DOMAIN scenes'[k].operations)
             /\ generations'[k + 1].evidence =
                    generations'[k].evidence
                        \o [i \in DOMAIN scenes'[k].evidence |->
                                [scene |-> k, target |-> scenes'[k].evidence[i]]]
    BY DEF Accounted, Sound, NotTwice, CitesEvidence, Result
<1>3. k \in 1 .. n
    BY <1>1, <1>2
<1>4. CASE k = n
    <2>1. generations'[n] = generations[n]
        BY <1>1, <1>3, <1>4
    <2>2. QED
        BY <1>4, <2>1 DEF Adds
<1>5. CASE k # n
    <2>1. k \in 1 .. Len(scenes) /\ k \in 1 .. n - 1 /\ k + 1 \in 1 .. n
        BY <1>1, <1>3, <1>5
    <2>2. /\ scenes'[k] = scenes[k] /\ generations'[k] = generations[k]
          /\ generations'[k + 1] = generations[k + 1]
        BY <1>1, <1>3, <2>1
    <2>3. QED
        BY <2>1, <2>2 DEF Accounted
<1>6. QED
    BY <1>4, <1>5

\* The order of events is that of the scenes, before and after the commit.
LEMMA CommitOrders ==
    ASSUME Ordered, NEW n, Adds(n)
    PROVE  Ordered'
<1> DEFINE s == scenes'[n]
           parent == generations[n].state
           old == parent[EventOrder]
           new == generations'[n + 1].state[EventOrder]
<1>1. /\ n \in Nat /\ n \in 1 .. SceneCount
      /\ Len(scenes) = n - 1 /\ Len(scenes') = n
      /\ \A k \in 1 .. n : generations'[k] = generations[k]
      /\ generations'[n + 1].state = Result(parent, s.operations, DOMAIN s.operations)
      /\ Sound(n, parent, s.participants, s.operations, s.evidence)
      /\ parent \in States
    BY StoryAssumption DEF Adds
<1>2. EventOrder \in DOMAIN parent /\ EventOrder[1] = "timeline_state"
      /\ old \in Seq(Nat)
    BY <1>1, FieldKinds DEF States
<1>3. Increasing(old, n - 1)
  <2>1. n - 1 \in 0 .. Len(scenes) /\ (n - 1) + 1 = n
    BY <1>1
  <2>2. QED
    BY <2>1 DEF Ordered
<1>4. new = old \/ new = Append(old, n)
  <2> HIDE DEF s, parent
  <2>1. CASE \E i \in DOMAIN s.operations : FieldOf(s.operations[i]) = EventOrder
    <3>1. PICK i \in DOMAIN s.operations : FieldOf(s.operations[i]) = EventOrder
        BY <2>1
    <3>2. new = NewOf(s.operations[i])
        BY <1>1, <1>2, <3>1, ResultAt DEF Sound
    <3>3. /\ OldOf(s.operations[i]) = old
          /\ NewOf(s.operations[i]) = Append(OldOf(s.operations[i]), n)
        BY <1>1, <1>2, <3>1 DEF Sound
    <3>4. QED
        BY <3>2, <3>3
  <2>2. CASE \A i \in DOMAIN s.operations : FieldOf(s.operations[i]) # EventOrder
    BY <1>1, <1>2, <2>2, ResultAt DEF Sound
  <2>3. QED
    BY <2>1, <2>2
<1>5. Increasing(new, n)
  <2> HIDE DEF new, old
  <2>1. /\ \A i, j \in DOMAIN old : i < j => old[i] < old[j]
        /\ \A i \in DOMAIN old : old[i] \in 1 .. n - 1
    BY <1>3 DEF Increasing, Range
  <2>2. CASE new = old
    <3>1. \A i \in DOMAIN new : new[i] \in 1 .. n
        BY <1>1, <2>1, <2>2
    <3>2. QED
        BY <2>1, <2>2, <3>1 DEF Increasing, Range
  <2>3. CASE new = Append(old, n)
    <3>1. /\ Len(old) \in Nat /\ DOMAIN old = 1 .. Len(old)
          /\ DOMAIN new = 1 .. Len(old) + 1
          /\ new[Len(old) + 1] = n
          /\ \A i \in 1 .. Len(old) : new[i] = old[i]
        BY <1>1, <1>2, <2>3
    <3>2. \A i \in DOMAIN new : new[i] \in 1 .. n
        BY <1>1, <2>1, <3>1
    <3>3. \A i, j \in DOMAIN new : i < j => new[i] < new[j]
      <4>1. SUFFICES ASSUME NEW i \in DOMAIN new, NEW j \in DOMAIN new, i < j
                     PROVE  new[i] < new[j]
        OBVIOUS
      <4>2. i \in 1 .. Len(old) /\ new[i] = old[i] /\ old[i] \in 1 .. n - 1
        BY <2>1, <3>1, <4>1
      <4>3. CASE j = Len(old) + 1
        BY <1>1, <3>1, <4>2, <4>3
      <4>4. CASE j # Len(old) + 1
        BY <2>1, <3>1, <4>1, <4>2, <4>4
      <4>5. QED
        BY <4>3, <4>4
    <3>4. QED
        BY <3>2, <3>3 DEF Increasing, Range
  <2>4. QED
    BY <1>4, <2>2, <2>3
<1>6. ASSUME NEW k \in 0 .. n
      PROVE  Increasing(generations'[k + 1].state[EventOrder], k)
  <2>1. CASE k = n
    BY <1>5, <2>1
  <2>2. CASE k # n
    <3>1. k \in 0 .. Len(scenes) /\ k + 1 \in 1 .. n
        BY <1>1, <2>2
    <3>2. generations'[k + 1] = generations[k + 1]
        BY <1>1, <3>1
    <3>3. QED
        BY <3>1, <3>2 DEF Ordered
  <2>3. QED
    BY <2>1, <2>2
<1>7. QED
    BY <1>1, <1>6 DEF Ordered, Increasing

\* A thread the new Generation has as resolved was resolved by the new scene,
\* in words it quotes, or by an earlier one the new scene leaves alone.
LEMMA CommitGrounds ==
    ASSUME Grounded, NEW n, Adds(n)
    PROVE  Grounded'
<1> DEFINE s == scenes'[n]
           parent == generations[n].state
<1>1. /\ n \in Nat /\ n \in 1 .. SceneCount
      /\ Len(scenes) = n - 1 /\ Len(scenes') = n
      /\ Len(generations) = n /\ Len(generations') = n + 1
      /\ \A k \in 1 .. n - 1 : scenes'[k] = scenes[k]
      /\ generations'[n + 1].state = Result(parent, s.operations, DOMAIN s.operations)
      /\ Sound(n, parent, s.participants, s.operations, s.evidence)
      /\ DOMAIN parent = Fields
    BY StoryAssumption DEF Adds, States
<1>2. Current = generations[n] /\ Current' = generations'[n + 1]
    BY <1>1 DEF Current
<1>3. SUFFICES ASSUME NEW t \in Threads,
                      generations'[n + 1].state[Status(t)] = "resolved"
      PROVE  \E k \in 1 .. n :
                /\ ResolvedBy(k, t)'
                /\ \A r \in k + 1 .. n : (Writes(r, Status(t)) = {})'
    BY <1>1, <1>2 DEF Grounded
<1>4. Status(t) \in DOMAIN parent
    BY <1>1, FieldKinds
<1>5. \A r \in 1 .. n - 1 : Writes(r, Status(t))' = Writes(r, Status(t))
    BY <1>1 DEF Writes
<1>6. CASE \E i \in DOMAIN s.operations : FieldOf(s.operations[i]) = Status(t)
  <2>1. PICK i \in DOMAIN s.operations : FieldOf(s.operations[i]) = Status(t)
    BY <1>6
  <2> DEFINE o == s.operations[i]
  <2>2. NewOf(o) = "resolved"
    <3> HIDE DEF s, parent
    <3>1. QED
        BY <1>1, <1>3, <1>4, <2>1, ResultAt DEF Sound
  <2>3. o \in Range(s.operations)
    BY DEF Range
  <2>4. PICK e \in CitedBy(o) : TRUE
    BY <1>1 DEF Sound
  <2>5. s.evidence[e] = Target(Status(t))
    BY <1>1, <2>1, <2>3, <2>4 DEF Sound, CitesEvidence
  <2>6. ResolvedBy(n, t)'
    BY <2>1, <2>2, <2>3, <2>4, <2>5 DEF ResolvedBy, Writes
  <2>7. n \in 1 .. n /\ n + 1 .. n = {}
    BY <1>1
  <2>8. QED
    BY <2>6, <2>7
<1>7. CASE \A i \in DOMAIN s.operations : FieldOf(s.operations[i]) # Status(t)
  <2>1. parent[Status(t)] = "resolved"
    <3> HIDE DEF s, parent
    <3>1. QED
        BY <1>1, <1>3, <1>4, <1>7, ResultAt DEF Sound
  <2>2. PICK k \in 1 .. n - 1 :
            /\ ResolvedBy(k, t)
            /\ \A r \in k + 1 .. n - 1 : Writes(r, Status(t)) = {}
    BY <1>1, <1>2, <2>1 DEF Grounded
  <2>3. ResolvedBy(k, t)'
    BY <1>1, <2>2 DEF ResolvedBy, Writes
  <2>4. (Writes(n, Status(t)) = {})'
    BY <1>7 DEF Writes, Range
  <2>5. ASSUME NEW r \in k + 1 .. n PROVE (Writes(r, Status(t)) = {})'
    <3>1. CASE r = n
        BY <2>4, <3>1
    <3>2. CASE r # n
      <4>1. r \in k + 1 .. n - 1 /\ r \in 1 .. n - 1
        BY <1>1, <2>2, <3>2
      <4>2. QED
        BY <1>5, <2>2, <4>1
    <3>3. QED
        BY <3>1, <3>2
  <2>6. k \in 1 .. n
    BY <1>1, <2>2
  <2>7. QED
    BY <2>3, <2>5, <2>6
<1>8. QED
    BY <1>6, <1>7

\* The commit.
LEMMA CommitKeeps ==
    ASSUME Inv, CommitScene
    PROVE  Inv'
<1>0. /\ Typed /\ Staged /\ Accounted /\ Told /\ Ordered /\ Grounded
      /\ pc' = IF Scene \in VolumeEnds THEN "handoff" ELSE "card"
    BY DEF Inv, CommitScene
<1>1. Len(scenes) + 1 \in Nat
    BY <1>0, TypedAt
<1>2. PICK n \in Nat : n = Len(scenes) + 1
    BY <1>1
<1>3. Adds(n) /\ Typed'
    BY <1>2, CommitAdds
<1>4. Accounted' /\ Told' /\ Ordered' /\ Grounded'
    BY <1>0, <1>3, CommitAccounts, CommitTells, CommitOrders, CommitGrounds
<1>5. pc' \in {"handoff", "card"}
    BY <1>0
<1>6. Staged'
  <2>1. Len(scenes') = n /\ n \in 1 .. SceneCount
    BY <1>3 DEF Adds
  <2>2. n = SceneCount => pc' = "handoff"
    BY <1>0, <1>2, StoryAssumption DEF Scene
  <2>3. QED
    BY <1>5, <2>1, <2>2, StoryAssumption DEF Staged
<1>7. Judged'
    BY <1>5 DEF Judged
<1>8. QED
    BY <1>3, <1>4, <1>6, <1>7 DEF Inv

\* Every step keeps the invariant.
LEMMA StepKeeps == Inv /\ [Next]_vars => Inv'
<1> SUFFICES ASSUME Inv, [Next]_vars PROVE Inv'
    OBVIOUS
<1>1. CASE AdoptCard
    BY <1>1, CardKeeps
<1>2. CASE AdoptContinuity
    BY <1>2, ContinuityKeeps
<1>3. CASE CommitScene
    BY <1>3, CommitKeeps
<1>4. CASE AdoptHandoff
    BY <1>4, HandoffKeeps
<1>5. CASE AdoptCompletion
    BY <1>5, CompletionKeeps
<1>6. CASE UNCHANGED vars
  <2>1. UNCHANGED <<generations, scenes>> /\ UNCHANGED <<pc, card, continuity>>
        /\ UNCHANGED <<handoffs, verdict>>
    BY <1>6 DEF vars
  <2>2. Typed' /\ Judged'
    BY <2>1 DEF Inv, Typed, Judged, Current
  <2>3. Staged'
    BY <2>1 DEF Inv, Staged, ValidCard, Sound, Scene, Current, NotTwice,
                CitesEvidence
  <2>4. QED
    BY <2>1, <2>2, <2>3, StoryStays DEF Inv
<1>7. QED
    BY <1>1, <1>2, <1>3, <1>4, <1>5, <1>6 DEF Next, CandidateRefused, Done
-----------------------------------------------------------------------------
(* The theorems.                                                            *)

\* The invariant holds: apply_continuity_operations, the contracts of the Scene
\* Card, the continuity and the handoff, and the commit keep every Generation
\* typed, accounted for by its scene, told by the scenes, and its events and
\* resolved threads grounded in them.
THEOREM Invariance == Spec => []Inv
<1>1. Init => Inv
    BY InitInv
<1>2. Inv /\ [Next]_vars => Inv'
    BY StepKeeps
<1>3. QED
    BY <1>1, <1>2, PTL DEF Spec

\* What one scene did to the Generation before it.
LEMMA SceneTells ==
    ASSUME Inv, NEW n \in 1 .. Len(scenes)
    PROVE  LET g == generations[n + 1]
               parent == generations[n]
               s == scenes[n] IN
           /\ g.state = Result(parent.state, s.operations, DOMAIN s.operations)
           /\ Sound(n, parent.state, s.participants, s.operations, s.evidence)
           /\ DOMAIN parent.state = Fields
           /\ parent.evidence \in Seq([scene : Nat, target : Targets])
           /\ s.evidence \in Seq(Targets)
           /\ g.evidence = parent.evidence
                    \o [i \in DOMAIN s.evidence |->
                            [scene |-> n, target |-> s.evidence[i]]]
<1>0. Typed /\ Accounted
    BY DEF Inv
<1>1. n \in 1 .. Len(generations)
    BY <1>0, TypedAt
<1>2. /\ generations[n].state \in States
      /\ generations[n].evidence \in Seq([scene : Nat, target : Targets])
      /\ scenes[n].evidence \in Seq(Targets)
    BY <1>0, <1>1, TypedAt
<1>3. DOMAIN generations[n].state = Fields
    BY <1>2 DEF States
<1>4. QED
    BY <1>0, <1>2, <1>3 DEF Accounted

\* A field that differs from the parent's was changed by an operation of the
\* scene, which cites a passage about its target.
LEMMA ChangesAreCited ==
    ASSUME NEW n, NEW parent, NEW participants, NEW operations, NEW evidence,
           Sound(n, parent, participants, operations, evidence),
           NEW f \in DOMAIN parent,
           Result(parent, operations, DOMAIN operations)[f] # parent[f]
    PROVE  /\ \E e \in DOMAIN evidence : evidence[e] = Target(f)
           /\ f[1] = "character_state" => f[2] \in participants
<1>1. NotTwice(operations)
    BY DEF Sound
<1>2. PICK i \in DOMAIN operations : FieldOf(operations[i]) = f
    BY <1>1, ResultAt
<1>3. /\ CitedBy(operations[i]) # {} /\ CitesEvidence(operations, evidence)
      /\ f[1] = "character_state" => f[2] \in participants
    BY <1>2 DEF Sound
<1>4. operations[i] \in Range(operations)
    BY <1>2 DEF Range
<1>5. QED
    BY <1>2, <1>3, <1>4 DEF CitesEvidence

\* The evidence of the scene stands in that of its Generation.
LEMMA EvidenceIsKept ==
    ASSUME NEW S, NEW old \in Seq(S), NEW E, NEW evidence \in Seq(E), NEW n,
           NEW e \in DOMAIN evidence
    PROVE  [scene |-> n, target |-> evidence[e]]
            \in Range(old \o [i \in DOMAIN evidence |->
                                [scene |-> n, target |-> evidence[i]]])
<1> DEFINE links == [i \in DOMAIN evidence |->
                        [scene |-> n, target |-> evidence[i]]]
           L == {links[i] : i \in DOMAIN evidence}
           all == old \o links
<1>1. /\ Len(old) \in Nat /\ Len(evidence) \in Nat
      /\ DOMAIN evidence = 1 .. Len(evidence)
    OBVIOUS
<1>2. links \in Seq(L) /\ Len(links) = Len(evidence)
  <2>1. links \in [1 .. Len(evidence) -> L] /\ DOMAIN links = 1 .. Len(evidence)
    BY <1>1
  <2>2. \A m \in Nat : \A h \in [1 .. m -> L] : h \in Seq(L) /\ Len(h) = m
    <3> HIDE DEF L
    <3>1. QED
        OBVIOUS
  <2> HIDE DEF links, L
  <2>3. QED
    BY <1>1, <2>1, <2>2
<1>3. e \in 1 .. Len(evidence) /\ links[e] = [scene |-> n, target |-> evidence[e]]
    BY <1>1
<1> HIDE DEF links, L
<1>4. Len(old) + e \in DOMAIN all /\ all[Len(old) + e] = links[e]
    BY <1>1, <1>2, <1>3
<1>5. QED
    BY <1>3, <1>4 DEF Range, links

\* apply_continuity_operations and build_scene_generation: every Generation is
\* what its scenes wrote, field by field, each change with its passage in the
\* evidence, characters moved only by scenes they take part in, events in the
\* order of reading (StateIsWhatScenesWrote).
THEOREM ScenesTellTheState == Spec => []StateIsWhatScenesWrote
<1>1. Inv => StateIsWhatScenesWrote
  <2>1. SUFFICES ASSUME Inv, NEW n \in 1 .. Len(generations) - 1
        PROVE  LET g == generations[n + 1] IN
            /\ \A f \in Fields : g.state[f] = LastWritten(n, f)
            /\ \A f \in Fields : g.state[f] # generations[n].state[f] =>
                    [scene |-> n, target |-> Target(f)] \in Range(g.evidence)
            /\ \A c \in Characters :
                    g.state[Place(c)] # generations[n].state[Place(c)] =>
                        c \in scenes[n].participants
            /\ \A i, j \in DOMAIN g.state[EventOrder] :
                    i < j => g.state[EventOrder][i] < g.state[EventOrder][j]
            /\ Range(g.state[EventOrder]) \subseteq 1 .. n
    BY DEF StateIsWhatScenesWrote
  <2>2. Typed /\ Told /\ Ordered /\ n \in 1 .. Len(scenes) /\ n \in 0 .. Len(scenes)
    BY <2>1, TypedAt DEF Inv
  <2> DEFINE g == generations[n + 1]
             parent == generations[n]
             s == scenes[n]
  <2>3. \A f \in Fields : g.state[f] = LastWritten(n, f)
    BY <2>2 DEF Told
  <2>4. Increasing(g.state[EventOrder], n)
    BY <2>2 DEF Ordered
  <2>5. /\ g.state = Result(parent.state, s.operations, DOMAIN s.operations)
        /\ Sound(n, parent.state, s.participants, s.operations, s.evidence)
        /\ DOMAIN parent.state = Fields
        /\ parent.evidence \in Seq([scene : Nat, target : Targets])
        /\ s.evidence \in Seq(Targets)
        /\ g.evidence = parent.evidence
                \o [i \in DOMAIN s.evidence |->
                        [scene |-> n, target |-> s.evidence[i]]]
    BY <2>1, <2>2, SceneTells
  <2> HIDE DEF g, parent, s
  <2>6. ASSUME NEW f \in Fields, g.state[f] # parent.state[f]
        PROVE  /\ [scene |-> n, target |-> Target(f)] \in Range(g.evidence)
               /\ f[1] = "character_state" => f[2] \in s.participants
    <3>1. /\ \E e \in DOMAIN s.evidence : s.evidence[e] = Target(f)
          /\ f[1] = "character_state" => f[2] \in s.participants
        BY <2>5, <2>6, ChangesAreCited
    <3>2. PICK e \in DOMAIN s.evidence : s.evidence[e] = Target(f)
        BY <3>1
    <3>3. [scene |-> n, target |-> s.evidence[e]] \in Range(g.evidence)
        BY <2>5, EvidenceIsKept
    <3>4. QED
        BY <3>1, <3>2, <3>3
  <2>7. ASSUME NEW c \in Characters, g.state[Place(c)] # parent.state[Place(c)]
        PROVE  c \in s.participants
    <3>1. /\ Place(c) \in Fields /\ Place(c)[1] = "character_state"
          /\ Place(c)[2] = c
        BY FieldKinds
    <3>2. QED
        BY <2>6, <2>7, <3>1
  <2>8. QED
    BY <2>3, <2>4, <2>6, <2>7 DEF Increasing, g, parent, s
<1>2. QED
    BY <1>1, Invariance, PTL

\* The commit refuses no continuity that its own stage adopted: _validate_candidate
\* implies every check of apply_continuity_operations and of
\* _validate_continuity_links (AdoptedContinuityCommits).
THEOREM AdoptionIsEnough == Spec => []AdoptedContinuityCommits
<1>1. Inv => AdoptedContinuityCommits
    BY CommitAccepts DEF Inv, AdoptedContinuityCommits
<1>2. QED
    BY <1>1, Invariance, PTL

\* A series judged complete has each required thread resolved by a scene that
\* quotes its text for it, by none reopened since, and listed in the last
\* handoff (CompleteIsGrounded).
THEOREM CompletionIsEarned == Spec => []CompleteIsGrounded
<1>1. Inv => CompleteIsGrounded
  <2>1. SUFFICES ASSUME Inv, pc = "done", verdict.status # "incomplete",
                        NEW t \in Required
        PROVE  /\ t \in handoffs[Len(handoffs)].resolved
               /\ \E s \in 1 .. SceneCount :
                    /\ \E o \in Writes(s, Status(t)) :
                        /\ NewOf(o) = "resolved"
                        /\ Target(Status(t)) \in
                                {scenes[s].evidence[e] : e \in CitedBy(o)}
                    /\ \A r \in s + 1 .. SceneCount : Writes(r, Status(t)) = {}
    BY DEF CompleteIsGrounded
  <2>2. /\ t \in Threads /\ Current.state[Status(t)] = "resolved"
        /\ handoffs[Len(handoffs)].resolved =
                {u \in Threads : Current.state[Status(u)] = "resolved"}
        /\ Len(scenes) = SceneCount
    BY <2>1, StoryAssumption DEF Inv, Judged, Staged
  <2>3. \E s \in 1 .. Len(scenes) :
            /\ ResolvedBy(s, t)
            /\ \A r \in s + 1 .. Len(scenes) : Writes(r, Status(t)) = {}
    BY <2>1, <2>2 DEF Inv, Grounded
  <2>4. QED
    BY <2>2, <2>3 DEF ResolvedBy
<1>2. QED
    BY <1>1, Invariance, PTL

\* Whatever is found about the ending and the arcs, the contract of the
\* Completion admits a verdict that says so, unless a required thread was left
\* in_progress (JudgeableUnlessInProgress).
THEOREM EveryEndingIsJudged == Spec => []JudgeableUnlessInProgress
<1>1. Inv => JudgeableUnlessInProgress
  <2>1. SUFFICES ASSUME Inv, pc = "completion",
                        \A t \in Required : Current.state[Status(t)] # "in_progress",
                        NEW ending \in {"satisfied", "not_satisfied"},
                        NEW partial \in BOOLEAN
        PROVE  \E j \in {j \in Judgements : ValidChecks(j)}, v \in Verdicts,
                  issues \in BOOLEAN :
                    /\ j.ending = ending
                    /\ Partial(j) = partial
                    /\ ValidVerdict(v, j, issues)
    BY DEF JudgeableUnlessInProgress, Judgeable
  <2>2. Current.state \in States /\ handoffs[Len(handoffs)].basis = Len(generations)
    <3>1. Len(generations) \in 1 .. Len(generations)
        BY <2>1, TypedAt DEF Inv
    <3>2. QED
        BY <2>1, <3>1, TypedAt DEF Inv, Judged, Current
  <2> DEFINE threads == [t \in Required |-> Current.state[Status(t)]]
             arc == IF partial THEN "partially_satisfied" ELSE "satisfied"
             j == [threads |-> threads, ending |-> ending,
                   arcs |-> [a \in Arcs |-> arc], cited |-> TRUE, remarks |-> FALSE]
  <2>3. threads \in [Required -> CheckStatuses]
    BY <2>1, <2>2, StoryAssumption DEF States, ThreadStatuses, CheckStatuses
  <2>4. [a \in Arcs |-> arc] \in
            [Arcs -> {"satisfied", "partially_satisfied", "not_satisfied",
                      "not_applicable"}]
    OBVIOUS
  <2>5. j \in Judgements
    <3> HIDE DEF threads, arc
    <3>1. QED
        BY <2>3, <2>4 DEF Judgements
  <2>6. /\ j.threads = threads /\ j.ending = ending /\ j.arcs = [a \in Arcs |-> arc]
        /\ j.cited = TRUE /\ j.remarks = FALSE
    OBVIOUS
  <2>7. ValidChecks(j)
    BY <2>2, <2>6 DEF ValidChecks
  <2>8. Partial(j) = partial
    <3>1. CASE partial = TRUE
        BY <2>6, <3>1, StoryAssumption DEF Partial
    <3>2. CASE partial = FALSE
        BY <2>6, <3>2 DEF Partial
    <3>3. QED
        BY <3>1, <3>2
  <2> HIDE DEF j
  <2>9. \E v \in Verdicts, issues \in BOOLEAN : ValidVerdict(v, j, issues)
    <3>1. CASE Blocking(j)
      <4>1. ValidVerdict("incomplete", j, TRUE)
        BY <3>1 DEF ValidVerdict
      <4>2. QED
        BY <4>1 DEF Verdicts
    <3>2. CASE ~Blocking(j) /\ Partial(j)
      <4>1. ValidVerdict("complete_with_issues", j, FALSE)
        BY <3>2 DEF ValidVerdict
      <4>2. QED
        BY <4>1 DEF Verdicts
    <3>3. CASE ~Blocking(j) /\ ~Partial(j)
      <4>1. ValidVerdict("complete", j, FALSE)
        BY <2>6, <3>3 DEF ValidVerdict
      <4>2. QED
        BY <4>1 DEF Verdicts
    <3>4. QED
        BY <3>1, <3>2, <3>3
  <2>10. QED
    BY <2>5, <2>6, <2>7, <2>8, <2>9
<1>2. QED
    BY <1>1, Invariance, PTL
=============================================================================
