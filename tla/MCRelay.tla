------------------------------ MODULE MCRelay -------------------------------
(* Small instances of Relay for TLC. *)
EXTENDS Relay, TLC

RelaySymmetry == Permutations(Guest) \cup Permutations(MsgId) \cup Permutations(SessionId)
                 \cup Permutations(Conn)

ReadWrite == {{"read", "write"}}
OneOfTwo  == {{"read"}, {"write"}}
OnlyWrite == {{"write"}}

\* One guest: it sends a mutation (RelayTwoGuests.cfg has queries).
MutationInit == RelayInit /\ \A m \in MsgId : kind[m] = "mutation"

MutationFairSpec == MutationInit /\ [][RelayNext]_allVars /\ RelayFairness

\* Two guests: the session ends with its host (Relay.cfg has the other ends).
EndsWithHostOnly ==
    \A s \in SessionId :
        status[s] # "expired" /\ \A c \in Conn : s \notin todo[Read(c)]

\* ... and nobody registers after its session is gone (Relay.cfg has that).
GuestsInTime == lateGuests = {}

\* ... and readers send queries.
ReadersOnlyAsk ==
    \A s \in SessionId, m \in MsgId : perm[s] = {"read"} => kind[m] = "query"
=============================================================================
