------------------------------- MODULE Adoption --------------------------------
(***************************************************************************)
(* What a configuration tracks, and which of the channels that a discovery *)
(* saw it may adopt: discover_compatible without its requests.  A channel  *)
(* that is neither a sequencer nor a data channel is one of another build, *)
(* and left alone.                                                         *)
(***************************************************************************)
EXTENDS Integers, FiniteSets

CONSTANTS Channels,
          Nodes,        \* L1 nodes a configuration may name
          NoNode,       \* the empty l1_node_url: sequencer mode
          Sequencers,   \* the channels that classify_channel takes for sequencers
          DataChannels, \* and for data channels
          Cap           \* the limit given to discover_compatible

ASSUME AdoptionAssumption ==
  /\ IsFiniteSet(Channels)
  /\ NoNode \notin Nodes /\ Nodes # {}
  /\ Sequencers \subseteq Channels /\ DataChannels \subseteq Channels
  /\ Sequencers \cap DataChannels = {}
  /\ Cap \in Nat \ {0}

\* own: the channels an operator listed; adopted: how many entries discovery has
\* pushed for each channel.
Config == [node : Nodes \cup {NoNode}, full : BOOLEAN, own : SUBSET Channels,
           adopted : [Channels -> Nat]]

NoneAdopted == [c \in Channels |-> 0]

\* channel_ids
Tracked(cfg) == cfg.own \cup {c \in Channels : cfg.adopted[c] > 0}

\* The entries that discovery pushed for channels of S.
Adopted(cfg, S) == Cardinality(UNION {{c} \X (1..cfg.adopted[c]) : c \in S})

\* What the caps leave: sequencers count sequencers only, data channels all.
SeqBudget(cfg)  == LET n == Adopted(cfg, Sequencers) IN IF n >= Cap THEN 0 ELSE Cap - n
DataBudget(cfg) == LET n == Adopted(cfg, Channels)   IN IF n >= Cap THEN 0 ELSE Cap - n

\* n members of S, or all of them: the code takes the first in the order of ids.
FirstOf(n, S) ==
  {F \in SUBSET S : Cardinality(F) = IF n <= Cardinality(S) THEN n ELSE Cardinality(S)}

\* A bug: the channels that are tracked already are found again.
FoundAgain(cfg, seen) ==
  LET Rest(seqs) == LET n == DataBudget(cfg) IN
                    IF n <= Cardinality(seqs) THEN 0 ELSE n - Cardinality(seqs)
  IN UNION {{s \cup d : d \in FirstOf(Rest(s), seen \cap DataChannels)} :
              s \in FirstOf(SeqBudget(cfg), seen \cap Sequencers)}

\* Of the channels seen, those that cfg does not track; sequencers first, data
\* channels into what they leave.
Found(cfg, seen) ==
  LET new == seen \ Tracked(cfg)
      Rest(seqs) == LET n == DataBudget(cfg) IN
                    IF n <= Cardinality(seqs) THEN 0 ELSE n - Cardinality(seqs)
  IN UNION {{s \cup d : d \in FirstOf(Rest(s), new \cap DataChannels)} :
              s \in FirstOf(SeqBudget(cfg), new \cap Sequencers)}

\* The channels found are pushed, but for the ignored ones.
WithAdopted(cfg, found, ignored) ==
  [cfg EXCEPT !.adopted = [c \in Channels |-> IF c \in found \ ignored THEN @[c] + 1 ELSE @[c]]]
================================================================================
