-------------------------- MODULE MCMarketLifecycle --------------------------
EXTENDS MarketLifecycle
=============================================================================
