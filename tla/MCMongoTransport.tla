-------------------------- MODULE MCMongoTransport --------------------------
EXTENDS MongoTransport, TLC

Symmetry == Permutations(Pcb)
=============================================================================
