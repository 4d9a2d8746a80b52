----------------------------- MODULE MCRedisKeys -----------------------------
EXTENDS RedisKeys
=============================================================================
