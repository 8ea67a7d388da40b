---------------------------- MODULE MCFeishuBot ----------------------------
EXTENDS FeishuBot
=============================================================================
