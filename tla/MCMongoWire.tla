---------------------------- MODULE MCMongoWire ----------------------------
EXTENDS MongoWire
=============================================================================
