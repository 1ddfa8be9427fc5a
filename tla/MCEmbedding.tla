---------------------------- MODULE MCEmbedding ----------------------------
\* Values for the constants of Embedding
EXTENDS Embedding

MCContainers == {6, 7}
=============================================================================
