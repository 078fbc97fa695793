------------------------------- MODULE MCBuckets -------------------------------
EXTENDS Buckets
=============================================================================
